---------------------------- MODULE Spec2Model ----------------------------
(***************************************************************************)
(* Model of the SPH density loop (density.c) and of the gradient loop with *)
(* its slope limiter (libgadget/mfm/gradients.c).                          *)
(*                                                                         *)
(* Real-valued quantities are carried in fixed point:                      *)
(*   lengths (Hsml, Left, Right, MinGasHsml) in units of 1/HsmlUnit,       *)
(*   DhsmlDensityFactor in units of 1/DS, the Newton factor in 1/FS.       *)
(* TLC integers are 32 bit, so the cubes of the bisection step are         *)
(* computed on limb sequences (base LimbBase, least significant first).    *)
(***************************************************************************)
EXTENDS Integers, Sequences, FiniteSets, TLC

(* ---------------- program parameters and constants ------------------- *)

\* All.DesNumNgb, All.MaxNumNgbDeviation, All.MinGasHsml (fixed point, HsmlUnit per 1.0)
DesNumNgb == 32
MaxNumNgbDeviation == 2
MinGasHsml == 8000
\* fixed-point length of 1.0: lengths are counted in units of MinGasHsml / 8000
HsmlUnit == MinGasHsml
NUMDIMS == 3
\* the iteration ceiling of density()
MAXITER == 12

\* fixed-point scales of the model
LimbBase == 10 * 10 * 10
DS == 10 * LimbBase
FS == LimbBase * LimbBase

(* ---------------- integer helpers ------------------------------------ *)

Abs(x) == IF x < 0 THEN -x ELSE x
Max(a, b) == IF a > b THEN a ELSE b
Min(a, b) == IF a < b THEN a ELSE b
\* C division of signed operands (truncation toward zero), b > 0
SDiv(a, b) == IF a >= 0 THEN a \div b ELSE -((-a) \div b)

\* limb sequences: natural numbers, base LimbBase, least significant limb first
RECURSIVE BNorm(_, _)
BNorm(s, carry) ==
    IF s = <<>> THEN (IF carry = 0 THEN <<>> ELSE BNorm(<<carry>>, 0))
    ELSE LET v == Head(s) + carry
         IN  <<v % LimbBase>> \o BNorm(Tail(s), v \div LimbBase)

BFromInt(n) == BNorm(<<n>>, 0)
\* s * k for 0 <= k < 2 * 10^6
BMulSmall(s, k) == BNorm([i \in 1..Len(s) |-> s[i] * k], 0)
BAdd(a, b) ==
    LET n == Max(Len(a), Len(b))
        at(s, i) == IF i <= Len(s) THEN s[i] ELSE 0
    IN  BNorm([i \in 1..n |-> at(a, i) + at(b, i)], 0)

RECURSIVE BStrip(_)
BStrip(s) == IF s # <<>> /\ s[Len(s)] = 0 THEN BStrip(SubSeq(s, 1, Len(s) - 1)) ELSE s

RECURSIVE BLeqN(_, _)
\* a <= b for stripped limb sequences
BLeqN(a, b) ==
    IF Len(a) # Len(b) THEN Len(a) < Len(b)
    ELSE IF a = <<>> THEN TRUE
    ELSE IF a[Len(a)] # b[Len(b)] THEN a[Len(a)] < b[Len(b)]
    ELSE BLeqN(SubSeq(a, 1, Len(a) - 1), SubSeq(b, 1, Len(b) - 1))
BLeq(a, b) == BLeqN(BStrip(a), BStrip(b))

RECURSIVE BToInt(_)
BToInt(s) == IF s = <<>> THEN 0 ELSE Head(s) + LimbBase * BToInt(Tail(s))

Cube(h) == BMulSmall(BMulSmall(BFromInt(h), h), h)

\* floor(h * f / FS), for h < 10^6 and 0 <= f < 2 * FS   (P[i].Hsml *= fac)
MulFac(h, f) ==
    LET p == BMulSmall(BFromInt(f), h)
    IN  IF Len(p) <= 2 THEN 0 ELSE BToInt(SubSeq(p, 3, Len(p)))

RECURSIVE CbrtSearch(_, _, _)
\* the largest x in lo..hi with 2 x^3 <= target (lo satisfies it)
CbrtSearch(lo, hi, target) ==
    IF lo >= hi THEN lo
    ELSE LET mid == (lo + hi + 1) \div 2
         IN  IF BLeq(BMulSmall(Cube(mid), 2), target)
             THEN CbrtSearch(mid, hi, target)
             ELSE CbrtSearch(lo, mid - 1, target)

\* variant of the mean that has lost its factor 0.5: pow(pow(Left, 3) + pow(Right, 3), 1.0 / 3)
CbrtSum(l, r) ==
    CbrtSearch(Min(l, r), 2 * Max(l, r), BMulSmall(BAdd(Cube(l), Cube(r)), 2))

\* pow(0.5 * (pow(Left, 3) + pow(Right, 3)), 1.0 / 3), rounded down to the length grid
CbrtMid(l, r) == CbrtSearch(Min(l, r), Max(l, r), BAdd(Cube(l), Cube(r)))

(* ---------------- rounded arithmetic of the gradient loop -------------- *)

\* The doubles of gradients.c are carried as integers counting 1/FPOne; every
\* arithmetic operation rounds its exact result to the nearest such number.
FPOne == LimbBase

\* a / b rounded to nearest, a >= 0, b > 0
RDivPos(a, b) == (2 * a + b) \div (2 * b)
\* the rounded product of two non-negative numbers
RMulPos(a, b) == (a \div FPOne) * b + ((a % FPOne) * b + FPOne \div 2) \div FPOne
Sign(x) == IF x < 0 THEN -1 ELSE 1
\* a * b
RMul(a, b) == Sign(a) * Sign(b) * RMulPos(Abs(a), Abs(b))
\* 1 / t, t > 0
RInv(t) == RDivPos(FPOne * FPOne, t)

RECURSIVE SqrtSearch(_, _, _)
\* the largest x in lo..hi with x * x <= n
SqrtSearch(lo, hi, n) ==
    IF lo >= hi THEN lo
    ELSE LET mid == (lo + hi + 1) \div 2
         IN  IF mid * mid <= n THEN SqrtSearch(mid, hi, n) ELSE SqrtSearch(lo, mid - 1, n)
\* sqrt(d), rounded to nearest
RSqrt(d) ==
    LET n == d * FPOne
        f == SqrtSearch(0, 46340, n)
    IN  IF n - f * f > f THEN f + 1 ELSE f


(* ---------------- particles, tasks and their environment -------------- *)

\* model bounds: number of particles and of MPI tasks
NumPart == 3
NTask == 2
PIDs == 1..NumPart
Tasks == 1..NTask
\* the domain decomposition: particles 1..NumPart-1 on task 1, the last one on task 2
Owner(p) == IF p < NumPart THEN 1 ELSE 2
Local(t) == {p \in PIDs : Owner(p) = t}

\* What the tree walk finds around a particle, as a function of its Hsml.
\* kind: "lin"   NumNgb = Hsml \div K          (monotone, window reachable)
\*       "jump"  20 below J, 45 from J on      (monotone, window skipped)
\*       "iso"   1 everywhere                  (isolated particle)
\*       "dense" 100 everywhere                (over-populated at every Hsml)
\*       "bump"  45 on [J, J + W), 20 elsewhere (not monotone)
ProfK == 500
ProfJ == 15000
ProfW == 2000
NgbOf(kind, h) ==
    CASE kind = "lin"   -> h \div ProfK
      [] kind = "jump"  -> IF h < ProfJ THEN 20 ELSE 45
      [] kind = "iso"   -> 1
      [] kind = "dense" -> 100
      [] kind = "bump"  -> IF h >= ProfJ /\ h < ProfJ + ProfW THEN 45 ELSE 20

Kinds == {"lin", "jump", "iso", "dense", "bump"}
Monotone(kind) == kind \in {"lin", "jump", "iso", "dense"}
WindowReachable(kind) == kind = "lin"

\* environments: [Type, h0 (Hsml on entry), kind, rho (Density found), draw (raw drho/dh found)]
\* a walk that finds no mass (rho = 0) accumulates no drho/dh either
EnvOf(p) ==
    IF p = 1 THEN
        { [Type |-> 0, h0 |-> h, kind |-> k, rho |-> 2, draw |-> d] :
            h \in {500, 8040, 14000, 24000}, k \in Kinds, d \in {-3, 2, 200} }
    ELSE IF p = 2 THEN
        { [Type |-> 1, h0 |-> 16000, kind |-> "lin", rho |-> 2, draw |-> 0],
          [Type |-> 0, h0 |-> 16000, kind |-> "lin", rho |-> 0, draw |-> 0],
          [Type |-> 0, h0 |-> 16000, kind |-> "iso", rho |-> 2, draw |-> 0] }
    ELSE
        { [Type |-> 0, h0 |-> h, kind |-> "lin", rho |-> 2, draw |-> 0] :
            h \in {16200, 20000} }

RECURSIVE EnvFuns(_)
\* every assignment of an environment to the particles 1..n
EnvFuns(n) == IF n = 0 THEN {<<>>}
              ELSE {Append(f, e) : f \in EnvFuns(n - 1), e \in EnvOf(n)}

\* what the walk accumulates of the velocity field around a particle: Div and Rot,
\* nothing where it finds no mass (fac = mass_j * dwk / r)
DivFound(e) == IF e.rho = 0 THEN 0 ELSE -6 * FPOne
RotFound(e) == IF e.rho = 0 THEN <<0, 0, 0>> ELSE <<3 * FPOne, 4 * FPOne, 0>>
\* SPHP(i).CurlVel on entry
CurlVelBefore == 7 * FPOne

VARIABLES
    env,                    \* per particle: what the tree walk will find (fixed)
    Hsml,                   \* P[i].Hsml
    NumNgb,                 \* P[i].n.NumNgb
    Density,                \* SPHP(i).Density
    DhsmlDensityFactor,     \* SPHP(i).DhsmlDensityFactor, units 1/DS
    DivVel, Rot, CurlVel,   \* SPHP(i).DivVel, SPHP(i).Rot[0..2], SPHP(i).CurlVel, units 1/FPOne
    DensityIterationDone,   \* P[i].DensityIterationDone
    Left, Right,            \* the bracket arrays of density()
    pc,                     \* per task: position in density()
    iter,                   \* per task: iter
    npleft,                 \* per task: npleft of the current pass
    ntot,                   \* per task: result of sumup_large_ints
    queue,                  \* per task: queue of the current pass (Nactive = Len)
    todo,                   \* per task: queue indices the post-pass loop has not yet run
    qread,                  \* history: per task, the indices at which the post-pass loop
                            \* of the current pass has read queue, counted from 0
    passes,                 \* per task: number of treewalk_run calls made
    errcode                 \* per task: code handed to endrun, 0 if none

dvars == <<env, Hsml, NumNgb, Density, DhsmlDensityFactor, DivVel, Rot, CurlVel,
           DensityIterationDone, Left, Right, pc, iter, npleft, ntot, queue, todo, passes,
           errcode, qread>>

\* the slope limiter on its own
VARIABLES
    larg,                   \* the arguments of local_slopelimiter other than grad (fixed)
    lgrad,                  \* grad[0..2], updated in place by every call
    lhist                   \* the contents of grad before the first and after every call

lvars == <<larg, lgrad, lhist>>

\* one communication pass of a neighbour visitor: the gradient loop of
\* hydro_gradient_calc, or one tree walk of density()
VARIABLES
    gin,                    \* what the pass only reads: particle fields, time bins, build
    Gradients,              \* SphP[p].Gradients: Density[3], Pressure[3]
    GasGradDataPasser,      \* GasGradDataPasser[p]: MaxDistance, Maxima, Minima
    NgbSum,                 \* what density_reduce stores on P[p]: Ngb, Rho
    gpc,                    \* per task: position in the pass
    NextParticle,           \* per task: the active particles no worker has taken yet
    NextJ,                  \* per task: the next imported query no worker has taken yet
    thr,                    \* per task and worker thread: the evaluation in progress
    DataIndexTable,         \* per task: the exports recorded, as (Index, Task) entries
    GasGradDataGet,         \* per task: the imported queries
    GasGradDataResult,      \* per task: the result slots of the imported queries
    wlog                    \* history: every store made by an evaluation

gvars == <<gin, Gradients, GasGradDataPasser, NgbSum, gpc, NextParticle, NextJ, thr,
           DataIndexTable, GasGradDataGet, GasGradDataResult, wlog>>

\* the export buffer of the gradient loop and the restart after it has filled.  Every
\* task indexes its own P[]; NextParticle, DataIndexTable, thr and gpc are shared with
\* the pass above.
VARIABLES
    BunchSize,              \* All.BunchSize: the entries DataIndexTable has room for (fixed)
    ExportNeed,             \* per task and particle: the tasks its search exports to (fixed)
    ProcessedFlag,          \* per task: ProcessedFlag[i]
    BufferFullFlag,         \* per task: BufferFullFlag
    save_NextParticle,      \* per task: NextParticle at the start of the sub-pass
    NumEvaluated,           \* history: completed mode 0 neighbour loops per particle
    NumSent,                \* history: queries handed to the exchange per particle
    Aborted,                \* history: the particles whose evaluation returned -1
    NumSubpass,             \* history: per task, the passes of the do-loop it has begun
    DataNodeList,           \* per task: DataNodeList[j].NodeList, the slot of export j
    GasGradDataOut          \* per task: the results that came back, one per export

evars == <<BunchSize, ExportNeed, ProcessedFlag, BufferFullFlag, save_NextParticle,
           NumEvaluated, NumSent, Aborted, NumSubpass, DataNodeList, GasGradDataOut>>

\* the density loop is not running
DIdle ==
    /\ env = <<>> /\ Hsml = <<>> /\ NumNgb = <<>> /\ Density = <<>>
    /\ DhsmlDensityFactor = <<>> /\ DensityIterationDone = <<>>
    /\ DivVel = <<>> /\ Rot = <<>> /\ CurlVel = <<>>
    /\ Left = <<>> /\ Right = <<>> /\ pc = <<>> /\ iter = <<>> /\ npleft = <<>>
    /\ ntot = <<>> /\ queue = <<>> /\ todo = <<>> /\ passes = <<>> /\ errcode = <<>>
    /\ qread = <<>>
\* no limiter call is being followed
LIdle == larg = <<>> /\ lgrad = <<>> /\ lhist = <<>>
\* no visitor pass is running
GIdle ==
    /\ gin = <<>> /\ Gradients = <<>> /\ GasGradDataPasser = <<>> /\ NgbSum = <<>>
    /\ gpc = <<>> /\ NextParticle = <<>> /\ NextJ = <<>> /\ thr = <<>>
    /\ DataIndexTable = <<>> /\ GasGradDataGet = <<>> /\ GasGradDataResult = <<>>
    /\ wlog = {}

\* the export buffer is not followed
EIdle ==
    /\ BunchSize = 0 /\ ExportNeed = <<>> /\ ProcessedFlag = <<>> /\ BufferFullFlag = <<>>
    /\ save_NextParticle = <<>> /\ NumEvaluated = <<>> /\ NumSent = <<>> /\ Aborted = <<>>
    /\ NumSubpass = <<>> /\ DataNodeList = <<>> /\ GasGradDataOut = <<>>

\* what each part of the model leaves alone
NotDensity == <<lvars, gvars, evars>>
NotLimiter == <<dvars, gvars, evars>>
NotVisitor == <<dvars, lvars, evars>>

(* ---------------- density.c: per-particle operations ------------------ *)

\* variant of density_isactive that does not look at DensityIterationDone
density_isactive_any(p) == env[p].Type = 0

\* density_isactive
density_isactive(p) ==
    IF DensityIterationDone[p] = 1 THEN FALSE
    ELSE env[p].Type = 0

RECURSIVE SeqOfSet(_)
\* the members of a set of particle indices, in increasing order
SeqOfSet(S) == IF S = {} THEN <<>>
               ELSE LET m == CHOOSE x \in S : \A y \in S : x <= y
                    IN  <<m>> \o SeqOfSet(S \ {m})

\* treewalk_get_queue: the local particles for which isactive holds
treewalk_get_queue(t) == SeqOfSet({p \in Local(t) : density_isactive(p)})

\* variant of density_post_process without the test against -0.9
density_post_process_unguarded(rho, dfac, hsml) ==
    IF rho > 0 THEN
        LET d == SDiv(dfac, DS)
            den == NUMDIMS * HsmlUnit * rho
        IN  IF den + d * hsml = 0 THEN 0
            ELSE SDiv(DS * den, Abs(den + d * hsml)) * Sign(den + d * hsml)
    ELSE dfac

\* density_post_process, the DhsmlDensityFactor part: d * Hsml / (NUMDIMS * Density),
\* then 1 / (1 + x) when x > -0.9, else 1; untouched when Density <= 0
density_post_process(rho, dfac, hsml) ==
    IF rho > 0 THEN
        LET d == SDiv(dfac, DS)
            den == NUMDIMS * HsmlUnit * rho
        IN  IF 10 * d * hsml > -9 * den
            THEN (DS * den) \div (den + d * hsml)
            ELSE DS
    ELSE dfac

\* density_post_process, CurlVel = sqrt(Rot . Rot) / Density when Density > 0
post_CurlVel(rho, rot, curl) ==
    IF rho > 0
    THEN RSqrt(RMul(rot[1], rot[1]) + RMul(rot[2], rot[2]) + RMul(rot[3], rot[3])) \div rho
    ELSE curl

\* density_post_process, DivVel /= Density when Density > 0
post_DivVel(rho, div) == IF rho > 0 THEN SDiv(div, rho) ELSE div

\* variant of the redo test that has lost its under-population half
NeedRedoUpperOnly(numngb, hsml) ==
    /\ numngb > DesNumNgb + MaxNumNgbDeviation
    /\ 100 * hsml > 101 * MinGasHsml

\* variant of the redo test that sends every over-populated particle to another pass
NeedRedoNoFloor(numngb, hsml) ==
    \/ numngb < DesNumNgb - MaxNumNgbDeviation
    \/ numngb > DesNumNgb + MaxNumNgbDeviation

\* the test that sends a particle to another pass
NeedRedo(numngb, hsml) ==
    \/ numngb < DesNumNgb - MaxNumNgbDeviation
    \/ /\ numngb > DesNumNgb + MaxNumNgbDeviation
       /\ 100 * hsml > 101 * MinGasHsml

\* variant of the collapse test with a tolerance of 1.0e-5
BracketCollapsedTight(l, r) == l > 0 /\ r > 0 /\ (r - l) < l \div 100000

\* Left[i] > 0 && Right[i] > 0 && (Right[i] - Left[i]) < 1.0e-3 * Left[i]
BracketCollapsed(l, r) == l > 0 /\ r > 0 /\ 1000 * (r - l) < l

\* variant of the update of Right that never fills an empty Right
NewRightKeepZero(numngb, hsml, r) ==
    IF numngb < DesNumNgb - MaxNumNgbDeviation THEN r
    ELSE IF r # 0 THEN (IF hsml < r THEN hsml ELSE r)
    ELSE r

\* variant of the update of Left that does not look at the neighbour count
NewLeftBothSides(numngb, hsml, l) == Max(hsml, l)

\* the bracket update
NewLeft(numngb, hsml, l) ==
    IF numngb < DesNumNgb - MaxNumNgbDeviation THEN Max(hsml, l) ELSE l
NewRight(numngb, hsml, r) ==
    IF numngb < DesNumNgb - MaxNumNgbDeviation THEN r
    ELSE IF r # 0 THEN (IF hsml < r THEN hsml ELSE r)
    ELSE hsml

\* variant of the Newton factor with the sign of its correction reversed
NewtonFacPlus(numngb, dfac) ==
    FS + SDiv((numngb - DesNumNgb) * dfac * (FS \div DS), NUMDIMS * numngb)

\* fac = 1 - (NumNgb - desnumngb) / (NUMDIMS * NumNgb) * DhsmlDensityFactor, units 1/FS
NewtonFac(numngb, dfac) ==
    FS - SDiv((numngb - DesNumNgb) * dfac * (FS \div DS), NUMDIMS * numngb)

\* variant that takes the Newton factor at any distance from the desired count
UseNewtonAnywhere(type, numngb) == type = 0

\* P[i].Type == 0 && fabs(P[i].n.NumNgb - desnumngb) < 0.5 * desnumngb
UseNewton(type, numngb) ==
    type = 0 /\ 2 * Abs(numngb - DesNumNgb) < DesNumNgb

\* the new Hsml before the MinGasHsml clamp; l, r are the updated bracket, one of them > 0
ProposeHsml(type, numngb, dfac, hsml, l, r) ==
    IF r > 0 /\ l > 0 THEN CbrtMid(l, r)
    ELSE IF r = 0 /\ l > 0 THEN
        IF UseNewton(type, numngb)
        THEN LET fac == NewtonFac(numngb, dfac)
             IN  IF 100 * fac < 126 * FS THEN MulFac(hsml, fac) ELSE (hsml * 126) \div 100
        ELSE (hsml * 126) \div 100
    ELSE IF r > 0 /\ l = 0 THEN
        IF UseNewton(type, numngb)
        THEN LET fac == NewtonFac(numngb, dfac)
             IN  IF 126 * fac > 100 * FS THEN MulFac(hsml, fac) ELSE (hsml * 100) \div 126
        ELSE (hsml * 100) \div 126
    ELSE hsml

\* variant without the lower bound on the proposal
NoClampHsml(h) == h

\* if(P[i].Hsml < All.MinGasHsml) P[i].Hsml = All.MinGasHsml
ClampHsml(h) == IF h < MinGasHsml THEN MinGasHsml ELSE h

\* variant of density_check_neighbours that lifts Hsml to MinGasHsml also when it
\* marks the particle done
density_check_neighbours_lifting(s) ==
    IF NeedRedo(s.NumNgb, s.Hsml) THEN
        IF s.Done = 1 THEN [s EXCEPT !.err = 999993]
        ELSE IF BracketCollapsed(s.Left, s.Right) THEN [s EXCEPT !.Done = 1]
        ELSE LET l == NewLeft(s.NumNgb, s.Hsml, s.Left)
                 r == NewRight(s.NumNgb, s.Hsml, s.Right)
             IN  IF r = 0 /\ l = 0
                 THEN [s EXCEPT !.Left = l, !.Right = r, !.err = 8188]
                 ELSE [s EXCEPT !.Left = l, !.Right = r,
                                !.Hsml = ClampHsml(ProposeHsml(s.Type, s.NumNgb, s.Dfac,
                                                               s.Hsml, l, r))]
    ELSE [s EXCEPT !.Done = 1, !.Hsml = ClampHsml(s.Hsml)]

\* density_check_neighbours on one particle's state
\* s = [Type, NumNgb, Hsml, Left, Right, Done, Dfac]; err is the endrun code, 0 if none
density_check_neighbours(s) ==
    IF NeedRedo(s.NumNgb, s.Hsml) THEN
        IF s.Done = 1 THEN [s EXCEPT !.err = 999993]
        ELSE IF BracketCollapsed(s.Left, s.Right) THEN [s EXCEPT !.Done = 1]
        ELSE LET l == NewLeft(s.NumNgb, s.Hsml, s.Left)
                 r == NewRight(s.NumNgb, s.Hsml, s.Right)
             IN  IF r = 0 /\ l = 0
                 THEN [s EXCEPT !.Left = l, !.Right = r, !.err = 8188]
                 ELSE [s EXCEPT !.Left = l, !.Right = r,
                                !.Hsml = ClampHsml(ProposeHsml(s.Type, s.NumNgb, s.Dfac,
                                                               s.Hsml, l, r))]
    ELSE [s EXCEPT !.Done = 1]

(* ---------------- density(): the state machine ------------------------ *)

DInit ==
    /\ env \in EnvFuns(NumPart)
    /\ Hsml = [p \in PIDs |-> env[p].h0]
    /\ NumNgb = [p \in PIDs |-> 0]
    /\ Density = [p \in PIDs |-> 0]
    /\ DhsmlDensityFactor = [p \in PIDs |-> 0]
    /\ DivVel = [p \in PIDs |-> 0]
    /\ Rot = [p \in PIDs |-> <<0, 0, 0>>]
    /\ CurlVel = [p \in PIDs |-> CurlVelBefore]       \* left over from an earlier step
    /\ \E d \in {0, 1} : DensityIterationDone = [p \in PIDs |-> d]   \* left over from an earlier call
    /\ Left = [p \in PIDs |-> 0]
    /\ Right = [p \in PIDs |-> 0]
    /\ pc = [t \in Tasks |-> "begin"]
    /\ iter = [t \in Tasks |-> 0]
    /\ npleft = [t \in Tasks |-> 0]
    /\ ntot = [t \in Tasks |-> 0]
    /\ queue = [t \in Tasks |-> <<>>]
    /\ todo = [t \in Tasks |-> {}]
    /\ qread = [t \in Tasks |-> {}]
    /\ passes = [t \in Tasks |-> 0]
    /\ errcode = [t \in Tasks |-> 0]
    /\ LIdle /\ GIdle /\ EIdle

\* density(), up to the do-loop: clear DensityIterationDone of the active particles,
\* then zero Left and Right of everything the first queue holds
DensityBegin(t) ==
    /\ pc[t] = "begin"
    /\ DensityIterationDone' = [p \in PIDs |-> IF p \in Local(t) THEN 0
                                               ELSE DensityIterationDone[p]]
    /\ Left' = [p \in PIDs |-> IF p \in Local(t) /\ env[p].Type = 0 THEN 0 ELSE Left[p]]
    /\ Right' = [p \in PIDs |-> IF p \in Local(t) /\ env[p].Type = 0 THEN 0 ELSE Right[p]]
    /\ pc' = [pc EXCEPT ![t] = "walk"]
    /\ UNCHANGED NotDensity
    /\ UNCHANGED <<env, Hsml, NumNgb, Density, DhsmlDensityFactor, DivVel, Rot, CurlVel,
                   iter, npleft, ntot, queue, todo, passes, errcode, qread>>

\* treewalk_run(&tw) followed by queue = treewalk_get_queue(&tw, &Nactive); npleft = 0
TreewalkRun(t) ==
    /\ pc[t] = "walk"
    /\ LET act == {p \in Local(t) : density_isactive(p)}
       IN  /\ NumNgb' = [p \in PIDs |-> IF p \in act THEN NgbOf(env[p].kind, Hsml[p])
                                        ELSE NumNgb[p]]
           /\ Density' = [p \in PIDs |-> IF p \in act THEN env[p].rho ELSE Density[p]]
           /\ DhsmlDensityFactor' = [p \in PIDs |-> IF p \in act THEN env[p].draw * DS
                                                    ELSE DhsmlDensityFactor[p]]
           /\ DivVel' = [p \in PIDs |-> IF p \in act THEN DivFound(env[p]) ELSE DivVel[p]]
           /\ Rot' = [p \in PIDs |-> IF p \in act THEN RotFound(env[p]) ELSE Rot[p]]
    /\ queue' = [queue EXCEPT ![t] = treewalk_get_queue(t)]
    /\ todo' = [todo EXCEPT ![t] = 1..Len(treewalk_get_queue(t))]
    /\ qread' = [qread EXCEPT ![t] = {}]
    /\ npleft' = [npleft EXCEPT ![t] = 0]
    /\ passes' = [passes EXCEPT ![t] = @ + 1]
    /\ pc' = [pc EXCEPT ![t] = "post"]
    /\ UNCHANGED NotDensity
    /\ UNCHANGED <<env, Hsml, CurlVel, DensityIterationDone, Left, Right, iter, ntot,
                   errcode>>

\* variant that counts no particle as left over
CountNone(n, done) == n

\* if(!P[p].DensityIterationDone) npleft++
CountLeft(n, done) == IF done = 1 THEN n ELSE n + 1

\* the index of particle p in the array P of its task, counted from 0
LocalIndex(p) == Cardinality({x \in Local(Owner(p)) : x < p})

\* the indices at which the diagnostic of the post-pass loop reads queue: the message
\* printed for particle p from iter >= MAXITER - 10 on has queue[p] as its first value
DiagnosticReads(t, p) ==
    IF iter[t] >= MAXITER - 10 THEN {LocalIndex(p)} ELSE {}

\* one iteration of the post-pass loop: p = queue[i]; density_post_process(p);
\* density_check_neighbours(p, Left, Right); the diagnostic; count p if it is not done
PostPass(t, i) ==
    /\ pc[t] = "post"
    /\ i \in todo[t]
    /\ LET p == queue[t][i]
           dfac == density_post_process(Density[p], DhsmlDensityFactor[p], Hsml[p])
           s == density_check_neighbours(
                    [Type |-> env[p].Type, NumNgb |-> NumNgb[p], Hsml |-> Hsml[p],
                     Left |-> Left[p], Right |-> Right[p],
                     Done |-> DensityIterationDone[p], Dfac |-> dfac, err |-> 0])
       IN  /\ DhsmlDensityFactor' = [DhsmlDensityFactor EXCEPT ![p] = dfac]
           /\ CurlVel' = [CurlVel EXCEPT ![p] = post_CurlVel(Density[p], Rot[p], @)]
           /\ DivVel' = [DivVel EXCEPT ![p] = post_DivVel(Density[p], @)]
           /\ Hsml' = [Hsml EXCEPT ![p] = s.Hsml]
           /\ Left' = [Left EXCEPT ![p] = s.Left]
           /\ Right' = [Right EXCEPT ![p] = s.Right]
           /\ DensityIterationDone' = [DensityIterationDone EXCEPT ![p] = s.Done]
           /\ IF s.err # 0
              THEN /\ pc' = [pc EXCEPT ![t] = "fatal"]
                   /\ errcode' = [errcode EXCEPT ![t] = s.err]
                   /\ qread' = [qread EXCEPT ![t] = @ \cup {i - 1}]
                   /\ UNCHANGED <<npleft, todo>>
              ELSE /\ npleft' = [npleft EXCEPT ![t] = CountLeft(@, s.Done)]
                   /\ todo' = [todo EXCEPT ![t] = @ \ {i}]
                   /\ qread' = [qread EXCEPT ![t] = @ \cup {i - 1} \cup DiagnosticReads(t, p)]
                   /\ UNCHANGED <<pc, errcode>>
    /\ UNCHANGED NotDensity
    /\ UNCHANGED <<env, NumNgb, Density, Rot, iter, ntot, queue, passes>>

RECURSIVE SumOver(_, _)
SumOver(f, S) == IF S = {} THEN 0
                 ELSE LET x == CHOOSE y \in S : TRUE IN f[x] + SumOver(f, S \ {x})

\* sumup_large_ints(1, &npleft, &ntot): every task has left its post-pass loop,
\* each receives the sum of all npleft
Sumup ==
    /\ \A t \in Tasks : pc[t] = "post" /\ todo[t] = {}
    /\ ntot' = [t \in Tasks |-> SumOver(npleft, Tasks)]
    /\ pc' = [t \in Tasks |-> "test"]
    /\ UNCHANGED NotDensity
    /\ UNCHANGED <<env, Hsml, NumNgb, Density, DhsmlDensityFactor, DivVel, Rot, CurlVel,
                   DensityIterationDone, Left, Right, iter, npleft, queue, todo, passes,
                   errcode, qread>>

\* variant that tests the local count in place of the global sum
LocalCount(t) == npleft[t]

\* the value the tail of the do-loop tests
LoopCount(t) == ntot[t]

\* variant that tolerates one more iteration
IterExceededLate(it) == it > MAXITER + 1

\* if(iter > MAXITER), evaluated after iter++
IterExceeded(it) == it > MAXITER

\* if(ntot > 0) { iter++; if(iter > MAXITER) endrun(1155, ...); }  while(ntot > 0)
LoopTest(t) ==
    /\ pc[t] = "test"
    /\ IF LoopCount(t) > 0
       THEN /\ iter' = [iter EXCEPT ![t] = @ + 1]
            /\ IF IterExceeded(iter[t] + 1)
               THEN /\ pc' = [pc EXCEPT ![t] = "fatal"]
                    /\ errcode' = [errcode EXCEPT ![t] = 1155]
               ELSE /\ pc' = [pc EXCEPT ![t] = "walk"]
                    /\ UNCHANGED errcode
       ELSE /\ pc' = [pc EXCEPT ![t] = "done"]
            /\ UNCHANGED <<iter, errcode>>
    /\ UNCHANGED NotDensity
    /\ UNCHANGED <<env, Hsml, NumNgb, Density, DhsmlDensityFactor, DivVel, Rot, CurlVel,
                   DensityIterationDone, Left, Right, npleft, ntot, queue, todo, passes,
                   qread>>

DNext ==
    \/ \E t \in Tasks : DensityBegin(t)
    \/ \E t \in Tasks : TreewalkRun(t)
    \/ \E t \in Tasks : \E i \in 1..NumPart : PostPass(t, i)
    \/ Sumup
    \/ \E t \in Tasks : LoopTest(t)

vars == <<dvars, lvars, gvars, evars>>

Init == DInit
Next == DNext
Spec == Init /\ [][Next]_vars

(* ---------------- gradients.c: local_slopelimiter ---------------------- *)

\* variant of the limiter bound that ignores the overshoot tolerance
LimiterBoundNoTol(abs_min, abs_max, shoot_tol) == abs_min

\* the factor cfac is multiplied with:
\* DMIN(abs_min + shoot_tol*abs_max, abs_max) if shoot_tol > 0, else abs_min
LimiterBound(abs_min, abs_max, shoot_tol) ==
    IF shoot_tol > 0
    THEN Min(abs_min + RMul(shoot_tol, abs_max), abs_max)
    ELSE abs_min

\* d_abs = sum of grad[k]*grad[k]
DAbs(grad) == RMul(grad[1], grad[1]) + RMul(grad[2], grad[2]) + RMul(grad[3], grad[3])

\* variant of cfac that divides by d_abs in place of its square root
LimiterCfacNoSqrt(d_abs, alim, h, bound) ==
    LET t == RMul(RMul(alim, h), d_abs)
    IN  IF t = 0 THEN FPOne ELSE RMul(RInv(t), bound)

\* cfac = 1 / (alim * h * sqrt(d_abs)); cfac *= bound.  A zero product makes cfac
\* infinite (or NaN when the bound is 0 as well), which is never < 1: the value
\* returned for it is 1
LimiterCfac(d_abs, alim, h, bound) ==
    LET t == RMul(RMul(alim, h), RSqrt(d_abs))
    IN  IF t = 0 THEN FPOne ELSE RMul(RInv(t), bound)

\* local_slopelimiter: the contents of grad[] after the call
local_slopelimiter(grad, valmax, valmin, alim, h, shoot_tol) ==
    LET d_abs == DAbs(grad)
    IN  IF d_abs > 0
        THEN LET fabs_max == Abs(valmax)
                 fabs_min == Abs(valmin)
                 abs_min == Min(fabs_max, fabs_min)
                 abs_max == Max(fabs_max, fabs_min)
                 cfac == LimiterCfac(d_abs, alim, h,
                                     LimiterBound(abs_min, abs_max, shoot_tol))
             IN  IF cfac < FPOne
                 THEN [k \in 1..3 |-> RMul(grad[k], cfac)]
                 ELSE grad
        ELSE grad

\* model bounds: how often the limiter is applied to one gradient
MaxApply == 3

\* the argument values tried: envelopes, alim, h, shoot_tol, and gradients
LimValmax == {0, FPOne, 2 * FPOne}
LimValmin == {0, -(FPOne \div 2), -2 * FPOne}
LimAlim == {FPOne \div 4, FPOne \div 2}
LimH == {FPOne, (3 * FPOne) \div 2}
LimTol == {0, FPOne \div 8, FPOne \div 2}
LimGrad == { <<0, 0, 0>>, <<3 * FPOne, 4 * FPOne, 0>>, <<FPOne, -2 * FPOne, 2 * FPOne>>,
             <<300, -400, 0>>, <<7123, 0, -3377>>, <<1, 0, 0>> }

LInit ==
    /\ larg \in [valmax : LimValmax, valmin : LimValmin, alim : LimAlim, h : LimH,
                  shoot_tol : LimTol]
    /\ lgrad \in LimGrad
    /\ lhist = <<lgrad>>
    /\ DIdle /\ GIdle /\ EIdle

\* one call local_slopelimiter(grad, valmax, valmin, alim, h, shoot_tol)
ApplyLimiter ==
    /\ Len(lhist) <= MaxApply
    /\ lgrad' = local_slopelimiter(lgrad, larg.valmax, larg.valmin, larg.alim, larg.h,
                                    larg.shoot_tol)
    /\ lhist' = Append(lhist, lgrad')
    /\ UNCHANGED larg
    /\ UNCHANGED NotLimiter

LNext == ApplyLimiter
LimiterSpec == LInit /\ [][LNext]_vars

(* ---------------- gradients.c: the pairwise gradient loop ------------- *)

\* worker threads of one task: the main thread 0 and the created threads
PTHREADS_NUM_THREADS == 2
Threads == 0..(PTHREADS_NUM_THREADS - 1)

\* P[p].Pos: the particles sit on the x axis, one length unit apart
Pos(p) == <<p * FPOne, 0, 0>>
Zero3 == <<0, 0, 0>>
VAdd(a, b) == <<a[1] + b[1], a[2] + b[2], a[3] + b[3]>>
VScale(v, c) == <<RMul(v[1], c), RMul(v[2], c), RMul(v[3], c)>>

\* the particle fields the pass reads.  All particles are gas with a condition
\* number below CONDITION_NUMBER_DANGER (matrix gradients, not the SPH fallback).
HsmlOf(p) == IF p = 1 THEN (5 * FPOne) \div 2 ELSE (3 * FPOne) \div 2
MassOf(p) == p * FPOne
\* particle 2 may come without a kernel, without mass or without density
Defects == {"hsml", "mass", "density"}
Defective(defect, what, p) == defect = what /\ p = 2
Shapes == {"linear", "kink"}
DensityOf(shape, p) ==
    IF shape = "linear" THEN p * FPOne
    ELSE IF p <= 2 THEN p * FPOne ELSE (4 * p - 6) * FPOne
PressureOf(shape, p) ==
    IF shape = "linear" THEN 3 * p * FPOne
    ELSE IF p = 1 THEN 5 * FPOne ELSE IF p = 2 THEN 4 * FPOne ELSE 0
\* time bins: all particles in bin 1, or particle 2 or the last particle in the
\* longer bin 2; bin 1 is active, bin 2 is active or not
TimeBinOf(sel, p) ==
    IF (sel = "mid" /\ p = 2) \/ (sel = "last" /\ p = NumPart) THEN 2 ELSE 1
TimeBinChoices == {<<"same", TRUE>>, <<"mid", TRUE>>, <<"mid", FALSE>>, <<"last", TRUE>>}
\* SphP[p].ConditionNumber with the scale of SphP[p].NV_T (a multiple of the identity)
CondChoices == {<<50, (3 * FPOne) \div 2>>, <<300, 8 * FPOne>>}
\* the builds: SLOPE_LIMITER_TOLERANCE undefined or 0, 1, 2
Builds == {0, 1, 2}

VisitInput(visitor, tol, tb, shape, c, defect) ==
    [visitor |-> visitor,
     SLOPE_LIMITER_TOLERANCE |-> tol,
     TimeBin |-> [p \in PIDs |-> TimeBinOf(tb[1], p)],
     TimeBinActive |-> <<TRUE, tb[2]>>,
     Hsml |-> [p \in PIDs |-> IF Defective(defect, "hsml", p) THEN 0 ELSE HsmlOf(p)],
     Mass |-> [p \in PIDs |-> IF Defective(defect, "mass", p) THEN 0 ELSE MassOf(p)],
     Density |-> [p \in PIDs |-> IF Defective(defect, "density", p) THEN 0
                                 ELSE DensityOf(shape, p)],
     Pressure |-> [p \in PIDs |-> PressureOf(shape, p)],
     ConditionNumber |-> [p \in PIDs |-> c[1]],
     NV_T |-> [p \in PIDs |-> c[2]]]

VisitInputs ==
    {VisitInput("gradient", tol, tb, shape, c, "none") :
        tol \in Builds, tb \in TimeBinChoices, shape \in Shapes, c \in CondChoices}
    \cup {VisitInput("gradient", 0, tb, "linear", <<50, (3 * FPOne) \div 2>>, defect) :
             tb \in TimeBinChoices, defect \in Defects}
    \cup {VisitInput("density", 0, <<"same", TRUE>>, shape, <<50, FPOne>>, "none") :
             shape \in Shapes}

\* (1 << TimeBin), 0 for bin 0
TimeStepOf(bin) == IF bin = 0 THEN 0 ELSE 2 ^ bin
\* i is on the list that starts at FirstActiveParticle
IsActive(p) == gin.TimeBinActive[gin.TimeBin[p]]
\* every particle passes the tests GasGrad_evaluate makes on its query
ValidParticles ==
    \A p \in PIDs : gin.Hsml[p] > 0 /\ gin.Mass[p] > 0 /\ gin.Density[p] > 0
FirstActiveParticle(t) == SeqOfSet({p \in Local(t) : IsActive(p)})

\* particle2in_GasGrad
particle2in_GasGrad(i) ==
    [Pos |-> Pos(i), Hsml |-> gin.Hsml[i],
     Mass |-> IF gin.Mass[i] < 0 THEN 0 ELSE gin.Mass[i],
     Timestep |-> TimeStepOf(gin.TimeBin[i]),
     GQuant |-> [Density |-> gin.Density[i], Pressure |-> gin.Pressure[i]]]
\* density_copy
density_copy(i) ==
    [Pos |-> Pos(i), Hsml |-> gin.Hsml[i], Timestep |-> 0,
     GQuant |-> [Density |-> 0, Pressure |-> 0]]

\* the kernel weight wk at distance r for support h: 1 - r/h inside the support
kernel_wk(r, h) == IF r < h THEN RDivPos((h - r) * FPOne, h) ELSE 0

\* kernel.r = sqrt(r2); the particles lie on the x axis
PairR(q, j) == Abs(q.Pos[1] - Pos(j)[1])
\* kernel.dp[k] = local.Pos[k] - P[j].Pos[k]
PairDp(q, j) == <<q.Pos[1] - Pos(j)[1], q.Pos[2] - Pos(j)[2], q.Pos[3] - Pos(j)[3]>>

\* the tests of the neighbour loop that end in "continue"
PairSkipped(q, j) ==
    LET TimeStep_J == TimeStepOf(gin.TimeBin[j])
        n0 == IF q.Pos[1] = Pos(j)[1]
              THEN (IF q.Pos[2] = Pos(j)[2] THEN 3 ELSE 2)
              ELSE 1
        r == PairR(q, j)
    IN  \/ q.Timestep > TimeStep_J
        \/ q.Timestep = TimeStep_J /\ q.Pos[n0] < Pos(j)[n0]
        \/ gin.Mass[j] <= 0
        \/ gin.Density[j] <= 0
        \/ r <= 0
        \/ r >= q.Hsml /\ r >= gin.Hsml[j]

\* variant of swap_to_j that mirrors onto every neighbour
SwapAlways(j) == TRUE

\* swap_to_j = TimeBinActive[P[j].TimeBin]
swap_to_j(j) == gin.TimeBinActive[gin.TimeBin[j]]

\* MINMAX_CHECK(x,xmin,xmax), as the pair <<xmin, xmax>> it leaves
MINMAX_CHECK(x, xmin, xmax) ==
    IF x < xmin THEN <<x, xmax>> ELSE IF x > xmax THEN <<xmin, x>> ELSE <<xmin, xmax>>

\* memset(&out, 0, ...)
OutZero ==
    [MaxDistance |-> 0,
     Maxima |-> [Density |-> 0, Pressure |-> 0],
     Minima |-> [Density |-> 0, Pressure |-> 0],
     Gradients |-> [Density |-> Zero3, Pressure |-> Zero3]]

\* what one neighbour j adds to out: MaxDistance, the envelopes of the differences,
\* and, when j is inside i's kernel, the gradient sums
PairOut(out, q, j) ==
    LET r == PairR(q, j)
        d_rho == gin.Density[j] - q.GQuant.Density
        d_prs == gin.Pressure[j] - q.GQuant.Pressure
        mmD == MINMAX_CHECK(d_rho, out.Minima.Density, out.Maxima.Density)
        mmP == MINMAX_CHECK(d_prs, out.Minima.Pressure, out.Maxima.Pressure)
        wk_xyz_i == VScale(PairDp(q, j), -kernel_wk(r, q.Hsml))
    IN  [MaxDistance |-> IF r > out.MaxDistance THEN r ELSE out.MaxDistance,
         Maxima |-> [Density |-> mmD[2], Pressure |-> mmP[2]],
         Minima |-> [Density |-> mmD[1], Pressure |-> mmP[1]],
         Gradients |->
            IF r < q.Hsml
            THEN [Density |-> VAdd(out.Gradients.Density, VScale(wk_xyz_i, d_rho)),
                  Pressure |-> VAdd(out.Gradients.Pressure, VScale(wk_xyz_i, d_prs))]
            ELSE out.Gradients]

RECURSIVE GasGradLoop(_, _, _)
\* the neighbour loop of GasGrad_evaluate over ngblist, as far as out is concerned
GasGradLoop(out, q, ngblist) ==
    IF ngblist = <<>> THEN out
    ELSE GasGradLoop(IF PairSkipped(q, Head(ngblist)) THEN out
                     ELSE PairOut(out, q, Head(ngblist)),
                     q, Tail(ngblist))

RECURSIVE density_ngbiter(_, _, _)
\* density_ngbiter over ngblist: O->Rho += mass_j * wk, O->Ngb += wk * kernel_volume
\* (volume 1) for every other with r2 < HH
density_ngbiter(O, I, ngblist) ==
    IF ngblist = <<>> THEN O
    ELSE LET other == Head(ngblist)
             wk == kernel_wk(PairR(I, other), I.Hsml)
         IN  density_ngbiter(IF PairR(I, other) < I.Hsml
                             THEN [Ngb |-> O.Ngb + wk,
                                   Rho |-> O.Rho + RMul(gin.Mass[other], wk)]
                             ELSE O,
                             I, Tail(ngblist))

\* the candidates the neighbour search hands to an evaluation on task t
ngb_treefind(t) == SeqOfSet(Local(t))
\* the other tasks the search finds a node of within reach of the query: the pair
\* search of the gradient loop reaches max(h_i, h_j), the density search h_i
ExportTasks(q, t) ==
    {d \in Tasks \ {t} :
        \E j \in Local(d) :
            PairR(q, j) < (IF gin.visitor = "gradient" THEN Max(q.Hsml, gin.Hsml[j])
                           ELSE q.Hsml)}

\* the neighbours the evaluation of q mirrors its pair terms onto
MirrorTargets(q, t) ==
    IF gin.visitor = "gradient"
    THEN SelectSeq(ngb_treefind(t), LAMBDA j : ~PairSkipped(q, j) /\ swap_to_j(j))
    ELSE <<>>

\* a worker with no evaluation in progress
IdleThread == [st |-> "idle", mode |-> 0, target |-> 0, id |-> 0, out |-> <<>>,
               todo |-> <<>>, reg |-> <<>>]
\* the worker's copy of the query: particle2in for a local target, else the import
LocalIn(t, th) ==
    IF thr[t][th].mode = 0
    THEN (IF gin.visitor = "gradient" THEN particle2in_GasGrad(thr[t][th].target)
          ELSE density_copy(thr[t][th].target))
    ELSE GasGradDataGet[t][thr[t][th].target].in
\* the checks of GasGrad_evaluate that return before the neighbour loop
EarlyReturn(q) ==
    gin.visitor = "gradient" /\ (q.Hsml <= 0 \/ q.Mass = 0 \/ q.GQuant.Density <= 0)
\* out as the neighbour loop of the visitor leaves it
Evaluate(q, t) ==
    IF gin.visitor = "gradient" THEN GasGradLoop(OutZero, q, ngb_treefind(t))
    ELSE density_ngbiter([Ngb |-> 0, Rho |-> 0], q, ngb_treefind(t))

\* the mirrored stores of the pair (q, j) onto GasGradDataPasser[j], issued with the
\* values reg the worker loaded; a comparison that fails stores nothing
MirrorPasser(cur, reg, q, j) ==
    LET r == PairR(q, j)
        d_rho == gin.Density[j] - q.GQuant.Density
        d_prs == gin.Pressure[j] - q.GQuant.Pressure
    IN  [MaxDistance |-> IF r > reg.MaxDistance THEN r ELSE cur.MaxDistance,
         Minima |->
            [Density |-> IF -d_rho < reg.Minima.Density THEN -d_rho
                         ELSE cur.Minima.Density,
             Pressure |-> IF -d_prs < reg.Minima.Pressure THEN -d_prs
                          ELSE cur.Minima.Pressure],
         Maxima |->
            [Density |-> IF -d_rho >= reg.Minima.Density /\ -d_rho > reg.Maxima.Density
                         THEN -d_rho ELSE cur.Maxima.Density,
             Pressure |-> IF -d_prs >= reg.Minima.Pressure /\ -d_prs > reg.Maxima.Pressure
                          THEN -d_prs ELSE cur.Maxima.Pressure]]
\* SphP[j].Gradients.X[k] += wk_xyz_j * dX, when j's kernel reaches i
MirrorGradients(cur, reg, q, j) ==
    LET r == PairR(q, j)
        d_rho == gin.Density[j] - q.GQuant.Density
        d_prs == gin.Pressure[j] - q.GQuant.Pressure
        wk_xyz_j == VScale(PairDp(q, j), -kernel_wk(r, gin.Hsml[j]))
    IN  IF r < gin.Hsml[j]
        THEN [Density |-> VAdd(reg.Density, VScale(wk_xyz_j, d_rho)),
              Pressure |-> VAdd(reg.Pressure, VScale(wk_xyz_j, d_prs))]
        ELSE cur

\* out2particle_GasGrad, the GasGradDataPasser part: MAX_ADD and MIN_ADD store only
\* when the comparison with the loaded value succeeds
out2particle_Passer(cur, reg, out) ==
    [MaxDistance |-> IF out.MaxDistance > reg.MaxDistance THEN out.MaxDistance
                     ELSE cur.MaxDistance,
     Maxima |->
        [Density |-> IF out.Maxima.Density > reg.Maxima.Density THEN out.Maxima.Density
                     ELSE cur.Maxima.Density,
         Pressure |-> IF out.Maxima.Pressure > reg.Maxima.Pressure THEN out.Maxima.Pressure
                      ELSE cur.Maxima.Pressure],
     Minima |->
        [Density |-> IF out.Minima.Density < reg.Minima.Density THEN out.Minima.Density
                     ELSE cur.Minima.Density,
         Pressure |-> IF out.Minima.Pressure < reg.Minima.Pressure THEN out.Minima.Pressure
                      ELSE cur.Minima.Pressure]]
\* out2particle_GasGrad, the ASSIGN_ADD_PRESET part: SphP[i].Gradients.X[k] += out
out2particle_Gradients(reg, out) ==
    [Density |-> VAdd(reg.Density, out.Gradients.Density),
     Pressure |-> VAdd(reg.Pressure, out.Gradients.Pressure)]

\* density_reduce with TREEWALK_REDUCE: assign for a primary result, add for a ghost
density_reduce(cur, remote, mode) ==
    IF mode = 0 THEN remote
    ELSE [Ngb |-> cur.Ngb + remote.Ngb, Rho |-> cur.Rho + remote.Rho]

\* construct_gradient, matrix branch: grad = NV_T * grad
construct_gradient(grad, i) == VScale(grad, gin.NV_T[i])

\* variant of a_limiter without the adjustment of the build
ALimiterBase(cn, tol) ==
    IF cn > 100
    THEN Min(FPOne \div 2, FPOne \div 4 + RDivPos((FPOne \div 4) * (cn - 100), 100))
    ELSE FPOne \div 4

\* a_limiter = 0.25, raised to DMIN(0.5, 0.25 + 0.25*(ConditionNumber-100)/100) above
\* 100; halved for SLOPE_LIMITER_TOLERANCE == 2, doubled for == 0
ALimiter(cn, tol) ==
    LET a == IF cn > 100
             THEN Min(FPOne \div 2, FPOne \div 4 + RDivPos((FPOne \div 4) * (cn - 100), 100))
             ELSE FPOne \div 4
    IN  IF tol = 2 THEN RMul(a, FPOne \div 2) ELSE IF tol = 0 THEN 2 * a ELSE a
\* h_lim = DMAX(Hsml, MaxDistance); Hsml for SLOPE_LIMITER_TOLERANCE == 2
HLim(hsml, maxdist, tol) == IF tol = 2 THEN hsml ELSE Max(hsml, maxdist)
\* stol = 0.125 for SLOPE_LIMITER_TOLERANCE == 2, else 0
Stol(tol) == IF tol = 2 THEN FPOne \div 8 ELSE 0

\* the final operations on particle i: construct_gradient, then the slope limiter
FinalGradients(i) ==
    LET tol == gin.SLOPE_LIMITER_TOLERANCE
        ps == GasGradDataPasser[i]
        h_lim == HLim(gin.Hsml[i], ps.MaxDistance, tol)
        a_limiter == ALimiter(gin.ConditionNumber[i], tol)
    IN  [Density |-> local_slopelimiter(construct_gradient(Gradients[i].Density, i),
                                         ps.Maxima.Density, ps.Minima.Density,
                                         a_limiter, h_lim, 0),
         Pressure |-> local_slopelimiter(construct_gradient(Gradients[i].Pressure, i),
                                          ps.Maxima.Pressure, ps.Minima.Pressure,
                                          a_limiter, h_lim, Stol(tol))]

(* ---------------- the pass: the state machine -------------------------- *)

\* SphP[p].Gradients as the previous step left it
StaleGradients == [Density |-> <<FPOne, 0, 0>>, Pressure |-> <<-FPOne, 0, 0>>]
\* memset(&GasGradDataPasser[i], 0, ...)
PasserZero == [MaxDistance |-> 0,
               Maxima |-> [Density |-> 0, Pressure |-> 0],
               Minima |-> [Density |-> 0, Pressure |-> 0]]
\* GasGradDataPasser comes from mymalloc: an entry holds whatever the memory held
\* until it is zeroed.  No entry is read before it was zeroed, so one value stands
\* for all of them.
PasserFresh == [MaxDistance |-> 7 * FPOne,
                Maxima |-> [Density |-> -FPOne, Pressure |-> -FPOne],
                Minima |-> [Density |-> FPOne, Pressure |-> FPOne]]

GInit ==
    /\ gin \in VisitInputs
    /\ Gradients = [p \in PIDs |-> StaleGradients]
    /\ GasGradDataPasser = [p \in PIDs |-> PasserFresh]
    /\ NgbSum = [p \in PIDs |-> [Ngb |-> 0, Rho |-> 0]]
    /\ gpc = [t \in Tasks |-> "begin"]
    /\ NextParticle = [t \in Tasks |-> <<>>]
    /\ NextJ = [t \in Tasks |-> 1]
    /\ thr = [t \in Tasks |-> [th \in Threads |-> IdleThread]]
    /\ DataIndexTable = [t \in Tasks |-> {}]
    /\ GasGradDataGet = [t \in Tasks |-> <<>>]
    /\ GasGradDataResult = [t \in Tasks |-> <<>>]
    /\ wlog = {}
    /\ DIdle /\ LIdle /\ EIdle

\* variant of PassBegin that starts the loop without zeroing anything
PassBeginNoZero(t) ==
    /\ gpc[t] = "begin"
    /\ NextParticle' = [NextParticle EXCEPT ![t] = FirstActiveParticle(t)]
    /\ gpc' = [gpc EXCEPT ![t] = "primary"]
    /\ UNCHANGED <<gin, GasGradDataPasser, Gradients, NgbSum, NextJ, thr, DataIndexTable,
                   GasGradDataGet, GasGradDataResult, wlog>>
    /\ UNCHANGED NotVisitor

\* hydro_gradient_calc up to the do-loop: zero GasGradDataPasser and the gradients of
\* the active gas particles, NextParticle = FirstActiveParticle.  A density tree walk
\* starts from its queue and zeroes nothing.
PassBegin(t) ==
    /\ gpc[t] = "begin"
    /\ IF gin.visitor = "gradient"
       THEN /\ GasGradDataPasser' =
                  [p \in PIDs |-> IF p \in Local(t) /\ IsActive(p) THEN PasserZero
                                  ELSE GasGradDataPasser[p]]
            /\ Gradients' =
                  [p \in PIDs |-> IF p \in Local(t) /\ IsActive(p)
                                  THEN [Density |-> Zero3, Pressure |-> Zero3]
                                  ELSE Gradients[p]]
       ELSE UNCHANGED <<GasGradDataPasser, Gradients>>
    /\ NextParticle' = [NextParticle EXCEPT ![t] = FirstActiveParticle(t)]
    /\ gpc' = [gpc EXCEPT ![t] = "primary"]
    /\ UNCHANGED <<gin, NgbSum, NextJ, thr, DataIndexTable, GasGradDataGet,
                   GasGradDataResult, wlog>>
    /\ UNCHANGED NotVisitor

\* the same evaluation with the tree walk ahead of the tests on the query
EvaluatePrimaryWalkFirst(t, th) ==
    /\ gpc[t] = "primary"
    /\ thr[t][th].st = "idle"
    /\ NextParticle[t] # <<>>
    /\ LET i == Head(NextParticle[t])
           q == IF gin.visitor = "gradient" THEN particle2in_GasGrad(i)
                ELSE density_copy(i)
       IN  /\ NextParticle' = [NextParticle EXCEPT ![t] = Tail(@)]
           /\ IF EarlyReturn(q)
              THEN UNCHANGED thr
              ELSE thr' = [thr EXCEPT ![t][th] =
                             [st |-> "walk", mode |-> 0, target |-> i, id |-> i,
                              out |-> Evaluate(q, t), todo |-> MirrorTargets(q, t),
                              reg |-> <<>>]]
           /\ DataIndexTable' =
                 [DataIndexTable EXCEPT ![t] =
                    @ \cup {[Index |-> i, Task |-> d] : d \in ExportTasks(q, t)}]
    /\ UNCHANGED <<gin, Gradients, GasGradDataPasser, NgbSum, gpc, NextJ,
                   GasGradDataGet, GasGradDataResult, wlog>>
    /\ UNCHANGED NotVisitor

\* a worker of the primary loop takes the next active particle and runs the neighbour
\* loop of the visitor on it (mode 0); the exports found on the way are recorded
EvaluatePrimary(t, th) ==
    /\ gpc[t] = "primary"
    /\ thr[t][th].st = "idle"
    /\ NextParticle[t] # <<>>
    /\ LET i == Head(NextParticle[t])
           q == IF gin.visitor = "gradient" THEN particle2in_GasGrad(i)
                ELSE density_copy(i)
       IN  /\ NextParticle' = [NextParticle EXCEPT ![t] = Tail(@)]
           /\ IF EarlyReturn(q)
              THEN UNCHANGED <<thr, DataIndexTable>>
              ELSE /\ thr' = [thr EXCEPT ![t][th] =
                                [st |-> "walk", mode |-> 0, target |-> i, id |-> i,
                                 out |-> Evaluate(q, t), todo |-> MirrorTargets(q, t),
                                 reg |-> <<>>]]
                   /\ DataIndexTable' =
                         [DataIndexTable EXCEPT ![t] =
                            @ \cup {[Index |-> i, Task |-> d] : d \in ExportTasks(q, t)}]
    /\ UNCHANGED <<gin, Gradients, GasGradDataPasser, NgbSum, gpc, NextJ,
                   GasGradDataGet, GasGradDataResult, wlog>>
    /\ UNCHANGED NotVisitor

\* a worker of the secondary loop takes the next imported query (mode 1)
EvaluateSecondary(t, th) ==
    /\ gpc[t] = "secondary"
    /\ thr[t][th].st = "idle"
    /\ NextJ[t] <= Len(GasGradDataGet[t])
    /\ LET q == GasGradDataGet[t][NextJ[t]].in
       IN  /\ NextJ' = [NextJ EXCEPT ![t] = @ + 1]
           /\ IF EarlyReturn(q)
              THEN UNCHANGED thr
              ELSE thr' = [thr EXCEPT ![t][th] =
                             [st |-> "walk", mode |-> 1, target |-> NextJ[t],
                              id |-> GasGradDataGet[t][NextJ[t]].Index,
                              out |-> Evaluate(q, t), todo |-> MirrorTargets(q, t),
                              reg |-> <<>>]]
    /\ UNCHANGED <<gin, Gradients, GasGradDataPasser, NgbSum, gpc, NextParticle,
                   DataIndexTable, GasGradDataGet, GasGradDataResult, wlog>>
    /\ UNCHANGED NotVisitor

\* Every "x += y" and every compare-and-assign on a particle's accumulators is a load
\* followed by a store.  Nothing orders the workers of a task between the two, so the
\* model takes them as separate steps: first the worker loads the accumulators of
\* the next neighbour j it mirrors onto ...
MirrorLoad(t, th) ==
    /\ thr[t][th].st = "walk"
    /\ thr[t][th].todo # <<>>
    /\ LET j == Head(thr[t][th].todo)
       IN  thr' = [thr EXCEPT ![t][th].st = "mirror",
                              ![t][th].reg = [Gradients |-> Gradients[j],
                                              Passer |-> GasGradDataPasser[j]]]
    /\ UNCHANGED <<gin, Gradients, GasGradDataPasser, NgbSum, gpc, NextParticle, NextJ,
                   DataIndexTable, GasGradDataGet, GasGradDataResult, wlog>>
    /\ UNCHANGED NotVisitor

\* ... then it stores MaxDistance, the envelopes and the gradient sums of j
MirrorStore(t, th) ==
    /\ thr[t][th].st = "mirror"
    /\ LET j == Head(thr[t][th].todo)
           q == LocalIn(t, th)
           reg == thr[t][th].reg
       IN  /\ GasGradDataPasser' =
                 [GasGradDataPasser EXCEPT ![j] = MirrorPasser(@, reg.Passer, q, j)]
           /\ Gradients' =
                 [Gradients EXCEPT ![j] = MirrorGradients(@, reg.Gradients, q, j)]
           /\ wlog' = wlog \cup {[mode |-> thr[t][th].mode, task |-> t,
                                  target |-> thr[t][th].id, obj |-> "particle",
                                  particle |-> j]}
    /\ thr' = [thr EXCEPT ![t][th].st = "walk", ![t][th].todo = Tail(@),
                          ![t][th].reg = <<>>]
    /\ UNCHANGED <<gin, NgbSum, gpc, NextParticle, NextJ, DataIndexTable,
                   GasGradDataGet, GasGradDataResult>>
    /\ UNCHANGED NotVisitor

\* mode 0, after the neighbour loop: out2particle_GasGrad loads the target's own
\* accumulators ...
OutLoad(t, th) ==
    /\ thr[t][th].st = "walk"
    /\ thr[t][th].todo = <<>>
    /\ thr[t][th].mode = 0
    /\ LET i == thr[t][th].target
       IN  thr' = [thr EXCEPT ![t][th].st = "out",
                              ![t][th].reg = [Gradients |-> Gradients[i],
                                              Passer |-> GasGradDataPasser[i]]]
    /\ UNCHANGED <<gin, Gradients, GasGradDataPasser, NgbSum, gpc, NextParticle, NextJ,
                   DataIndexTable, GasGradDataGet, GasGradDataResult, wlog>>
    /\ UNCHANGED NotVisitor

\* ... and stores them; the density walk reduces its primary result onto the target
OutStore(t, th) ==
    /\ thr[t][th].st = "out"
    /\ LET i == thr[t][th].target
           out == thr[t][th].out
           reg == thr[t][th].reg
       IN  /\ IF gin.visitor = "gradient"
              THEN /\ GasGradDataPasser' =
                        [GasGradDataPasser EXCEPT
                            ![i] = out2particle_Passer(@, reg.Passer, out)]
                   /\ Gradients' =
                        [Gradients EXCEPT
                            ![i] = out2particle_Gradients(reg.Gradients, out)]
                   /\ UNCHANGED NgbSum
              ELSE /\ NgbSum' = [NgbSum EXCEPT ![i] = density_reduce(@, out, 0)]
                   /\ UNCHANGED <<GasGradDataPasser, Gradients>>
           /\ wlog' = wlog \cup {[mode |-> 0, task |-> t, target |-> i,
                                  obj |-> "particle", particle |-> i]}
    /\ thr' = [thr EXCEPT ![t][th] = IdleThread]
    /\ UNCHANGED <<gin, gpc, NextParticle, NextJ, DataIndexTable, GasGradDataGet,
                   GasGradDataResult>>
    /\ UNCHANGED NotVisitor

\* mode 1, after the neighbour loop: GasGradDataResult[target] = out
ResultStore(t, th) ==
    /\ thr[t][th].st = "walk"
    /\ thr[t][th].todo = <<>>
    /\ thr[t][th].mode = 1
    /\ GasGradDataResult' =
          [GasGradDataResult EXCEPT ![t][thr[t][th].target] = thr[t][th].out]
    /\ wlog' = wlog \cup {[mode |-> 1, task |-> t, target |-> thr[t][th].id,
                           obj |-> "result", particle |-> 0]}
    /\ thr' = [thr EXCEPT ![t][th] = IdleThread]
    /\ UNCHANGED <<gin, Gradients, GasGradDataPasser, NgbSum, gpc, NextParticle, NextJ,
                   DataIndexTable, GasGradDataGet>>
    /\ UNCHANGED NotVisitor

AllJoined(t) == \A th \in Threads : thr[t][th].st = "idle"

\* the primary loop has run dry and the created threads are joined.  The export
\* buffer is taken to be large enough (BufferFullFlag stays 0), so NextParticle < 0.
JoinPrimary(t) ==
    /\ gpc[t] = "primary"
    /\ NextParticle[t] = <<>>
    /\ AllJoined(t)
    /\ gpc' = [gpc EXCEPT ![t] = "exchange"]
    /\ UNCHANGED <<gin, Gradients, GasGradDataPasser, NgbSum, NextParticle, NextJ, thr,
                   DataIndexTable, GasGradDataGet, GasGradDataResult, wlog>>
    /\ UNCHANGED NotVisitor

RECURSIVE ImportsFrom(_, _)
\* what tasks 1..t send to task d, in the order of the sorted DataIndexTable
ImportsFrom(d, t) ==
    IF t = 0 THEN <<>>
    ELSE LET idx == SeqOfSet({e.Index : e \in {x \in DataIndexTable[t] : x.Task = d}})
         IN  ImportsFrom(d, t - 1) \o
             [k \in 1..Len(idx) |->
                [in |-> IF gin.visitor = "gradient" THEN particle2in_GasGrad(idx[k])
                        ELSE density_copy(idx[k]),
                 Task |-> t, Index |-> idx[k]]]

\* a result slot nothing was stored in yet
NoResult == [MaxDistance |-> -1]

\* MPI_Alltoall of the counts, then the MPI_Sendrecv of GasGradDataIn into
\* GasGradDataGet; GasGradDataResult is allocated; NextJ = 0
Exchange ==
    /\ \A t \in Tasks : gpc[t] = "exchange"
    /\ GasGradDataGet' = [d \in Tasks |-> ImportsFrom(d, NTask)]
    /\ GasGradDataResult' =
          [d \in Tasks |-> [k \in 1..Len(ImportsFrom(d, NTask)) |-> NoResult]]
    /\ NextJ' = [t \in Tasks |-> 1]
    /\ gpc' = [t \in Tasks |-> "secondary"]
    /\ UNCHANGED <<gin, Gradients, GasGradDataPasser, NgbSum, NextParticle, thr,
                   DataIndexTable, wlog>>
    /\ UNCHANGED NotVisitor

\* the secondary loop has run dry and the created threads are joined; the task goes
\* on to the MPI_Allreduce of ndone_flag
JoinSecondary(t) ==
    /\ gpc[t] = "secondary"
    /\ NextJ[t] > Len(GasGradDataGet[t])
    /\ AllJoined(t)
    /\ gpc' = [gpc EXCEPT ![t] = "reduce"]
    /\ UNCHANGED <<gin, Gradients, GasGradDataPasser, NgbSum, NextParticle, NextJ, thr,
                   DataIndexTable, GasGradDataGet, GasGradDataResult, wlog>>
    /\ UNCHANGED NotVisitor

RECURSIVE ExportsOf(_, _)
\* the entries of task t's sorted DataIndexTable that go to tasks 1..d
ExportsOf(t, d) ==
    IF d = 0 THEN <<>>
    ELSE LET idx == SeqOfSet({e.Index : e \in {x \in DataIndexTable[t] : x.Task = d}})
         IN  ExportsOf(t, d - 1) \o [k \in 1..Len(idx) |-> [Index |-> idx[k], Task |-> d]]

\* GasGradDataOut[j]: the result task e.Task computed for the export e of task t
ResultFor(t, e) ==
    LET k == CHOOSE n \in 1..Len(GasGradDataGet[e.Task]) :
                 /\ GasGradDataGet[e.Task][n].Task = t
                 /\ GasGradDataGet[e.Task][n].Index = e.Index
    IN  GasGradDataResult[e.Task][k]

RECURSIVE AddLoop(_, _, _)
\* for(j = 0; j < Nexport; j++) out2particle_GasGrad(&GasGradDataOut[j], place, 1, ...);
\* for a density walk the reduction of the ghost results
AddLoop(acc, t, exports) ==
    IF exports = <<>> THEN acc
    ELSE LET e == Head(exports)
             i == e.Index
             out == ResultFor(t, e)
             new == IF gin.visitor = "gradient"
                    THEN [acc EXCEPT
                            !.Passer[i] = out2particle_Passer(@, @, out),
                            !.Gradients[i] = out2particle_Gradients(@, out)]
                    ELSE [acc EXCEPT !.NgbSum[i] = density_reduce(@, out, 1)]
         IN  AddLoop(new, t, Tail(exports))

\* past the MPI_Allreduce of ndone_flag, which every task has reached: the results
\* come back by MPI_Sendrecv and are added to the local particles.  All tasks ran
\* out of particles in this round, so ndone = NTask and the do-loop ends.
AddResults(t) ==
    /\ gpc[t] = "reduce"
    /\ \A u \in Tasks : gpc[u] \in {"reduce", "final", "done"}
    /\ LET acc == AddLoop([Passer |-> GasGradDataPasser, Gradients |-> Gradients,
                           NgbSum |-> NgbSum], t, ExportsOf(t, NTask))
       IN  /\ GasGradDataPasser' = acc.Passer
           /\ Gradients' = acc.Gradients
           /\ NgbSum' = acc.NgbSum
    /\ gpc' = [gpc EXCEPT ![t] = IF gin.visitor = "gradient" THEN "final" ELSE "done"]
    /\ UNCHANGED <<gin, NextParticle, NextJ, thr, DataIndexTable, GasGradDataGet,
                   GasGradDataResult, wlog>>
    /\ UNCHANGED NotVisitor

\* the final operations on the results, for every active gas particle of the task
FinalOps(t) ==
    /\ gpc[t] = "final"
    /\ Gradients' = [p \in PIDs |-> IF p \in Local(t) /\ IsActive(p)
                                    THEN FinalGradients(p) ELSE Gradients[p]]
    /\ gpc' = [gpc EXCEPT ![t] = "done"]
    /\ UNCHANGED <<gin, GasGradDataPasser, NgbSum, NextParticle, NextJ, thr,
                   DataIndexTable, GasGradDataGet, GasGradDataResult, wlog>>
    /\ UNCHANGED NotVisitor

GNext ==
    \/ \E t \in Tasks : PassBegin(t)
    \/ \E t \in Tasks : \E th \in Threads : EvaluatePrimary(t, th)
    \/ \E t \in Tasks : \E th \in Threads : EvaluateSecondary(t, th)
    \/ \E t \in Tasks : \E th \in Threads : MirrorLoad(t, th)
    \/ \E t \in Tasks : \E th \in Threads : MirrorStore(t, th)
    \/ \E t \in Tasks : \E th \in Threads : OutLoad(t, th)
    \/ \E t \in Tasks : \E th \in Threads : OutStore(t, th)
    \/ \E t \in Tasks : \E th \in Threads : ResultStore(t, th)
    \/ \E t \in Tasks : JoinPrimary(t)
    \/ Exchange
    \/ \E t \in Tasks : JoinSecondary(t)
    \/ \E t \in Tasks : AddResults(t)
    \/ \E t \in Tasks : FinalOps(t)

VisitSpec == GInit /\ [][GNext]_vars

(* ---------------- gradients.c: the export buffer and its restart ------- *)

\* model bounds: the largest All.BunchSize tried
MaxBunchSize == 3

\* the active list of a task: its local indices 1..NumPart, all of them gas
ActiveList == SeqOfSet(PIDs)

\* what the searches of a task's particles export, as the list of destination tasks
\* of particle i of task t: nothing; one entry each; one entry for every particle but
\* the first; two entries each
ExportProfiles == {"none", "each", "later", "twice"}
ExportList(prof, t, i) ==
    LET d == (t % NTask) + 1
        e == ((t + 1) % NTask) + 1
    IN  CASE prof = "none"  -> <<>>
          [] prof = "each"  -> <<d>>
          [] prof = "later" -> IF i = 1 THEN <<>> ELSE <<d>>
          [] prof = "twice" -> <<d, IF e = t THEN d ELSE e>>

\* Nexport
Nexport(t) == Len(DataIndexTable[t])

EInit ==
    /\ BunchSize \in 1..MaxBunchSize
    /\ \E prof \in [Tasks -> ExportProfiles] :
          ExportNeed = [t \in Tasks |-> [i \in PIDs |-> ExportList(prof[t], t, i)]]
    \* ProcessedFlag holds what the loop that used it last has left
    /\ \E f \in {1, 2} : ProcessedFlag = [t \in Tasks |-> [i \in PIDs |-> f]]
    /\ BufferFullFlag = [t \in Tasks |-> 0]
    /\ save_NextParticle = [t \in Tasks |-> <<>>]
    /\ NumEvaluated = [t \in Tasks |-> [i \in PIDs |-> 0]]
    /\ NumSent = [t \in Tasks |-> [i \in PIDs |-> 0]]
    /\ Aborted = [t \in Tasks |-> {}]
    /\ NumSubpass = [t \in Tasks |-> 0]
    /\ DataNodeList = [t \in Tasks |-> <<>>]
    /\ GasGradDataGet = [t \in Tasks |-> <<>>]
    /\ GasGradDataResult = [t \in Tasks |-> <<>>]
    /\ GasGradDataOut = [t \in Tasks |-> <<>>]
    /\ NextParticle = [t \in Tasks |-> ActiveList]
    /\ DataIndexTable = [t \in Tasks |-> <<>>]
    /\ thr = [t \in Tasks |-> [th \in Threads |-> IdleThread]]
    /\ gpc = [t \in Tasks |-> "top"]
    /\ gin = <<>> /\ Gradients = <<>> /\ GasGradDataPasser = <<>> /\ NgbSum = <<>>
    /\ NextJ = <<>> /\ wlog = {}
    /\ DIdle /\ LIdle

\* what the export loop leaves alone
NotExport == <<dvars, lvars, gin, Gradients, GasGradDataPasser, NgbSum, NextJ, wlog,
               BunchSize, ExportNeed>>
\* the buffers of the exchange
ExchangeBuffers == <<GasGradDataGet, GasGradDataResult, GasGradDataOut>>

\* the head of the do-loop: BufferFullFlag = 0; Nexport = 0;
\* save_NextParticle = NextParticle
SubpassBegin(t) ==
    /\ gpc[t] = "top"
    /\ BufferFullFlag' = [BufferFullFlag EXCEPT ![t] = 0]
    /\ DataIndexTable' = [DataIndexTable EXCEPT ![t] = <<>>]
    /\ DataNodeList' = [DataNodeList EXCEPT ![t] = <<>>]
    \* the buffers of the pass before were freed at its end
    /\ GasGradDataGet' = [GasGradDataGet EXCEPT ![t] = <<>>]
    /\ GasGradDataResult' = [GasGradDataResult EXCEPT ![t] = <<>>]
    /\ GasGradDataOut' = [GasGradDataOut EXCEPT ![t] = <<>>]
    /\ save_NextParticle' = [save_NextParticle EXCEPT ![t] = NextParticle[t]]
    /\ NumSubpass' = [NumSubpass EXCEPT ![t] = @ + 1]
    /\ gpc' = [gpc EXCEPT ![t] = "primary"]
    /\ UNCHANGED <<ProcessedFlag, NumEvaluated, NumSent, Aborted, NextParticle, thr>>
    /\ UNCHANGED NotExport

\* a worker of the primary loop takes the next particle unless the buffer has filled:
\* i = NextParticle; ProcessedFlag[i] = 0; NextParticle = NextActiveParticle[i]
TakeParticle(t, th) ==
    /\ gpc[t] = "primary"
    /\ thr[t][th].st = "idle"
    /\ BufferFullFlag[t] = 0
    /\ NextParticle[t] # <<>>
    /\ LET i == Head(NextParticle[t])
       IN  /\ ProcessedFlag' = [ProcessedFlag EXCEPT ![t][i] = 0]
           /\ thr' = [thr EXCEPT ![t][th] =
                        [IdleThread EXCEPT !.st = "search", !.target = i, !.id = i,
                                           !.todo = ExportNeed[t][i]]]
    /\ NextParticle' = [NextParticle EXCEPT ![t] = Tail(@)]
    /\ UNCHANGED <<BufferFullFlag, save_NextParticle, NumEvaluated, NumSent, Aborted,
                   DataIndexTable, gpc>>
    /\ UNCHANGED <<NumSubpass, DataNodeList>>
    /\ UNCHANGED ExchangeBuffers
    /\ UNCHANGED NotExport

\* the node list the search of particle i fills for the export it makes with rest
\* still to be exported: the particle, the task of the nodes, and which of the
\* particle's exports it is
NodeListOf(t, i, rest) ==
    [Index |-> i, Task |-> Head(rest), Nr |-> Len(ExportNeed[t][i]) - Len(rest) + 1]

\* the search of the evaluation reaches a node of another task: with the table full
\* it sets BufferFullFlag and the evaluation returns -1 (numngb < 0), which ends the
\* worker's loop; otherwise the export takes the entry Nexport
RecordExport(t, th) ==
    /\ gpc[t] = "primary"
    /\ thr[t][th].st = "search"
    /\ thr[t][th].todo # <<>>
    /\ IF Nexport(t) >= BunchSize
       THEN /\ BufferFullFlag' = [BufferFullFlag EXCEPT ![t] = 1]
            /\ Aborted' = [Aborted EXCEPT ![t] = @ \cup {thr[t][th].target}]
            /\ thr' = [thr EXCEPT ![t][th] = IdleThread]
            /\ UNCHANGED <<DataIndexTable, DataNodeList>>
       ELSE /\ DataIndexTable' =
                 [DataIndexTable EXCEPT ![t] =
                    Append(@, [Index |-> thr[t][th].target, Task |-> Head(thr[t][th].todo),
                               IndexGet |-> Nexport(t)])]
            /\ DataNodeList' =
                 [DataNodeList EXCEPT ![t] =
                    Append(@, NodeListOf(t, thr[t][th].target, thr[t][th].todo))]
            /\ thr' = [thr EXCEPT ![t][th].todo = Tail(@)]
            /\ UNCHANGED <<BufferFullFlag, Aborted>>
    /\ UNCHANGED <<ProcessedFlag, save_NextParticle, NumEvaluated, NumSent, NextParticle,
                   gpc>>
    /\ UNCHANGED NumSubpass
    /\ UNCHANGED ExchangeBuffers
    /\ UNCHANGED NotExport

\* the search is through: the neighbour loop adds the pair terms to out and to the
\* local neighbours, out goes to the target, GasGrad_evaluate returns 0 and the
\* worker sets ProcessedFlag[i] = 1
CompleteEvaluation(t, th) ==
    /\ gpc[t] = "primary"
    /\ thr[t][th].st = "search"
    /\ thr[t][th].todo = <<>>
    /\ LET i == thr[t][th].target
       IN  /\ NumEvaluated' = [NumEvaluated EXCEPT ![t][i] = @ + 1]
           /\ ProcessedFlag' = [ProcessedFlag EXCEPT ![t][i] = 1]
    /\ thr' = [thr EXCEPT ![t][th] = IdleThread]
    /\ UNCHANGED <<BufferFullFlag, save_NextParticle, NumSent, Aborted, NextParticle,
                   DataIndexTable, gpc>>
    /\ UNCHANGED <<NumSubpass, DataNodeList>>
    /\ UNCHANGED ExchangeBuffers
    /\ UNCHANGED NotExport

RECURSIVE Rollback(_, _, _)
\* while(NextParticle >= 0) { if(NextParticle == last_nextparticle) break;
\* if(ProcessedFlag[NextParticle] != 1) break; ProcessedFlag[NextParticle] = 2;
\* NextParticle = NextActiveParticle[NextParticle]; }
Rollback(np, last_nextparticle, flags) ==
    IF np = <<>> \/ np = last_nextparticle \/ flags[Head(np)] # 1
    THEN [NextParticle |-> np, ProcessedFlag |-> flags]
    ELSE Rollback(Tail(np), last_nextparticle, [flags EXCEPT ![Head(np)] = 2])

RECURSIVE ScanExport(_, _, _)
\* for(; k < Nexport; k++) if(ProcessedFlag[DataIndexTable[k].Index] == 2): the first
\* such k, or Nexport
ScanExport(tbl, flags, k) ==
    IF k >= Len(tbl) \/ flags[tbl[k + 1].Index] = 2 THEN k
    ELSE ScanExport(tbl, flags, k + 1)

RECURSIVE CompactExportsStale(_, _, _, _, _, _)
\* variant of CompactExports that leaves the IndexGet of a moved entry as it was
CompactExportsStale(tbl, nl, flags, j, k, new_export) ==
    IF j >= Len(tbl) THEN [tbl |-> tbl, nl |-> nl, new_export |-> new_export]
    ELSE IF flags[tbl[j + 1].Index] # 2
    THEN LET kf == ScanExport(tbl, flags, IF k < j + 1 THEN j + 1 ELSE k)
         IN  IF kf < Len(tbl)
             THEN LET old_index == tbl[j + 1].Index
                      moved == [tbl EXCEPT ![j + 1] = tbl[kf + 1],
                                           ![kf + 1].Index = old_index]
                      movednl == [nl EXCEPT ![j + 1] = nl[kf + 1]]
                  IN  CompactExportsStale(moved, movednl, flags, j + 1, kf + 1,
                                          new_export + 1)
             ELSE CompactExportsStale(tbl, nl, flags, j + 1, kf, new_export)
    ELSE CompactExportsStale(tbl, nl, flags, j + 1, k, new_export + 1)

RECURSIVE CompactExports(_, _, _, _, _, _)
\* for(j = 0, k = 0; j < Nexport; j++) ...: the table, the node lists and new_export
\* the loop leaves (j and k count from 0, entry j is tbl[j + 1])
CompactExports(tbl, nl, flags, j, k, new_export) ==
    IF j >= Len(tbl) THEN [tbl |-> tbl, nl |-> nl, new_export |-> new_export]
    ELSE IF flags[tbl[j + 1].Index] # 2
    THEN LET kf == ScanExport(tbl, flags, IF k < j + 1 THEN j + 1 ELSE k)
         IN  IF kf < Len(tbl)
             THEN LET old_index == tbl[j + 1].Index
                      moved == [tbl EXCEPT ![j + 1] = [tbl[kf + 1] EXCEPT !.IndexGet = j],
                                           ![kf + 1].Index = old_index]
                      movednl == [nl EXCEPT ![j + 1] = nl[kf + 1]]
                  IN  CompactExports(moved, movednl, flags, j + 1, kf + 1, new_export + 1)
             ELSE CompactExports(tbl, nl, flags, j + 1, kf, new_export)
    ELSE CompactExports(tbl, nl, flags, j + 1, k, new_export + 1)

\* the threads are joined; if(BufferFullFlag): NextParticle goes back to the first
\* particle of the sub-pass that is not flagged 1, endrun(113308) if that is the
\* particle the sub-pass began with, and the exports of the particles not flagged 2
\* are taken out of the table
AfterPrimary(t) ==
    /\ gpc[t] = "primary"
    /\ AllJoined(t)
    /\ BufferFullFlag[t] # 0 \/ NextParticle[t] = <<>>
    /\ IF BufferFullFlag[t] # 0
       THEN LET rb == Rollback(save_NextParticle[t], NextParticle[t], ProcessedFlag[t])
                cp == CompactExports(DataIndexTable[t], DataNodeList[t], rb.ProcessedFlag,
                                     0, 0, 0)
            IN  IF rb.NextParticle = save_NextParticle[t]
                THEN /\ gpc' = [gpc EXCEPT ![t] = "fatal"]
                     /\ NextParticle' = [NextParticle EXCEPT ![t] = rb.NextParticle]
                     /\ UNCHANGED <<ProcessedFlag, DataIndexTable, DataNodeList>>
                ELSE /\ gpc' = [gpc EXCEPT ![t] = "flush"]
                     /\ NextParticle' = [NextParticle EXCEPT ![t] = rb.NextParticle]
                     /\ ProcessedFlag' = [ProcessedFlag EXCEPT ![t] = rb.ProcessedFlag]
                     /\ DataIndexTable' =
                           [DataIndexTable EXCEPT ![t] = SubSeq(cp.tbl, 1, cp.new_export)]
                     /\ DataNodeList' =
                           [DataNodeList EXCEPT ![t] = SubSeq(cp.nl, 1, cp.new_export)]
       ELSE /\ gpc' = [gpc EXCEPT ![t] = "flush"]
            /\ UNCHANGED <<NextParticle, ProcessedFlag, DataIndexTable, DataNodeList>>
    /\ UNCHANGED <<BufferFullFlag, save_NextParticle, NumEvaluated, NumSent, Aborted, thr>>
    /\ UNCHANGED NumSubpass
    /\ UNCHANGED ExchangeBuffers
    /\ UNCHANGED NotExport

\* the number of entries of tbl for particle i
EntriesOf(tbl, i) == Cardinality({n \in 1..Len(tbl) : tbl[n].Index = i})

\* data_index_compare: by Task, then Index, then IndexGet
data_index_compare(a, b) ==
    \/ a.Task < b.Task
    \/ a.Task = b.Task /\ a.Index < b.Index
    \/ a.Task = b.Task /\ a.Index = b.Index /\ a.IndexGet < b.IndexGet
RECURSIVE MYSORT_DATAINDEX(_)
\* MYSORT_DATAINDEX(DataIndexTable, Nexport, ..., data_index_compare)
MYSORT_DATAINDEX(tbl) ==
    IF tbl = <<>> THEN <<>>
    ELSE LET m == CHOOSE n \in 1..Len(tbl) :
                      \A k \in 1..Len(tbl) : k = n \/ data_index_compare(tbl[n], tbl[k])
         IN  <<tbl[m]>> \o
             MYSORT_DATAINDEX([k \in 1..(Len(tbl) - 1) |->
                                  IF k < m THEN tbl[k] ELSE tbl[k + 1]])

\* In what follows tb is the sorted DataIndexTable of every task.
\* Send_count[j] of task t; Recv_count[j] as MPI_Alltoall delivers it
Send_count(tb, t, j) == Cardinality({n \in 1..Len(tb[t]) : tb[t][n].Task = j})
Recv_count(tb, t, j) == Send_count(tb, j, t)
RECURSIVE Send_offset(_, _, _)
RECURSIVE Recv_offset(_, _, _)
\* Send_offset[j] = Send_offset[j - 1] + Send_count[j - 1], and the same for Recv
Send_offset(tb, t, j) ==
    IF j = 1 THEN 0 ELSE Send_offset(tb, t, j - 1) + Send_count(tb, t, j - 1)
Recv_offset(tb, t, j) ==
    IF j = 1 THEN 0 ELSE Recv_offset(tb, t, j - 1) + Recv_count(tb, t, j - 1)
\* Nimport
Nimport(tb, t) == Recv_offset(tb, t, NTask) + Recv_count(tb, t, NTask)
\* the task whose block of the receive buffer of task t holds slot n (slots from 1)
RecvBlockOf(tb, t, n) ==
    CHOOSE j \in Tasks :
        Recv_offset(tb, t, j) < n /\ n <= Recv_offset(tb, t, j) + Recv_count(tb, t, j)
\* the task whose block of the send buffer of task t holds slot n (slots from 1)
SendBlockOf(tb, t, n) ==
    CHOOSE j \in Tasks :
        Send_offset(tb, t, j) < n /\ n <= Send_offset(tb, t, j) + Send_count(tb, t, j)

\* variant of GasGradDataIn that takes the node list of the slot the entry is in
GasGradDataInSlot(tb, t) ==
    [j \in 1..Len(tb[t]) |->
        [Particle |-> <<t, tb[t][j].Index>>, NodeList |-> DataNodeList[t][j]]]
\* GasGradDataIn[j]: particle2in_GasGrad of particle DataIndexTable[j].Index of task
\* t, with NodeList copied from DataNodeList[DataIndexTable[j].IndexGet]
GasGradDataIn(tb, t) ==
    [j \in 1..Len(tb[t]) |->
        [Particle |-> <<t, tb[t][j].Index>>,
         NodeList |-> DataNodeList[t][tb[t][j].IndexGet + 1]]]
\* the MPI_Sendrecv of the queries: Send_count[recvTask] entries from Send_offset of
\* the sender arrive at Recv_offset of the receiver
ExchangeQueries(tb, t) ==
    [n \in 1..Nimport(tb, t) |->
        LET from == RecvBlockOf(tb, t, n)
        IN  GasGradDataIn(tb, from)[Send_offset(tb, from, t) + n - Recv_offset(tb, t, from)]]
\* the secondary loop: GasGradDataResult[j] is the out of GasGrad_evaluate on
\* GasGradDataGet[j], computed by task t
EvaluateQueries(t, get) == [n \in 1..Len(get) |-> [By |-> t, Query |-> get[n]]]
\* the MPI_Sendrecv of the results: Recv_count[recvTask] entries from Recv_offset of
\* the evaluating task arrive at Send_offset of the task that exported
ExchangeResults(tb, res, t) ==
    [j \in 1..Len(tb[t]) |->
        LET to == SendBlockOf(tb, t, j)
        IN  res[to][Recv_offset(tb, to, t) + j - Send_offset(tb, t, to)]]

\* the rest of the pass up to the loop condition, which all tasks go through
\* together: the table is sorted, the counts and the queries of the table are
\* exchanged and evaluated, the results come back and are added to the particles
\* DataIndexTable[j].Index
FlushBody ==
    /\ \A t \in Tasks : gpc[t] = "flush"
    /\ NumSent' = [t \in Tasks |-> [i \in PIDs |->
                      NumSent[t][i] + EntriesOf(DataIndexTable[t], i)]]
    /\ LET tb == [t \in Tasks |-> MYSORT_DATAINDEX(DataIndexTable[t])]
           get == [t \in Tasks |-> ExchangeQueries(tb, t)]
           res == [t \in Tasks |-> EvaluateQueries(t, get[t])]
       IN  /\ DataIndexTable' = tb
           /\ GasGradDataGet' = get
           /\ GasGradDataResult' = res
           /\ GasGradDataOut' = [t \in Tasks |-> ExchangeResults(tb, res, t)]
    /\ UNCHANGED <<ProcessedFlag, BufferFullFlag, save_NextParticle, NumEvaluated,
                   Aborted, NextParticle, thr, NumSubpass, DataNodeList>>
    /\ UNCHANGED NotExport

\* variant of FlushAndReduce in which a task ends its loop on its own ndone_flag
FlushAndReduceLocal ==
    /\ FlushBody
    /\ gpc' = [t \in Tasks |-> IF NextParticle[t] # <<>> THEN "top" ELSE "done"]

\* ndone_flag = (NextParticle < 0) is summed by MPI_Allreduce on the way;
\* while(ndone < NTask)
FlushAndReduce ==
    /\ FlushBody
    /\ LET ndone == Cardinality({t \in Tasks : NextParticle[t] = <<>>})
       IN  gpc' = [t \in Tasks |-> IF ndone < NTask THEN "top" ELSE "done"]

ENext ==
    \/ \E t \in Tasks : SubpassBegin(t)
    \/ \E t \in Tasks : \E th \in Threads : TakeParticle(t, th)
    \/ \E t \in Tasks : \E th \in Threads : RecordExport(t, th)
    \/ \E t \in Tasks : \E th \in Threads : CompleteEvaluation(t, th)
    \/ \E t \in Tasks : AfterPrimary(t)
    \/ FlushAndReduce

ExportSpec == EInit /\ [][ENext]_vars

(* ---------------- density(): properties ------------------------------ *)

\* a gas particle takes part in density(); task t has returned from density()
Participating(p) == env[p].Type = 0
Returned(t) == pc[t] = "done"
InWindow(n) == n >= DesNumNgb - MaxNumNgbDeviation /\ n <= DesNumNgb + MaxNumNgbDeviation
\* density_check_neighbours has run on p in the pass whose queue task Owner(p) holds,
\* or marked it done in an earlier pass
Processed(p) ==
    /\ pc[Owner(p)] # "begin"
    /\ \/ DensityIterationDone[p] = 1
       \/ \E i \in 1..Len(queue[Owner(p)]) :
              queue[Owner(p)][i] = p /\ i \notin todo[Owner(p)]
AllMonotoneReachable ==
    \A p \in PIDs : Participating(p) =>
        Monotone(env[p].kind) /\ WindowReachable(env[p].kind)
AllDone(t) == \A p \in Local(t) : Participating(p) => DensityIterationDone[p] = 1

\* C1 as stated: at a normal return every participating particle has NumNgb in the
\* window, or Hsml equal to MinGasHsml, or a collapsed bracket with Left < Right
C1_AsStated ==
    \A p \in PIDs : Returned(Owner(p)) /\ Participating(p) =>
        \/ InWindow(NumNgb[p])
        \/ Hsml[p] = MinGasHsml
        \/ /\ Left[p] > 0 /\ Right[p] > 0 /\ Left[p] < Right[p]
           /\ 1000 * (Right[p] - Left[p]) < Left[p]

\* C1 amended: at a normal return every participating particle has NumNgb in the
\* window, or has too many neighbours at an Hsml of at most 1.01 MinGasHsml, or a
\* collapsed bracket with Left < Right
C1_ExitCondition ==
    \A p \in PIDs : Returned(Owner(p)) /\ Participating(p) =>
        \/ InWindow(NumNgb[p])
        \/ /\ NumNgb[p] > DesNumNgb + MaxNumNgbDeviation
           /\ 100 * Hsml[p] <= 101 * MinGasHsml
        \/ /\ Left[p] > 0 /\ Right[p] > 0 /\ Left[p] < Right[p]
           /\ 1000 * (Right[p] - Left[p]) < Left[p]

\* C1 witness: a normal return with an over-populated particle that sits above
\* MinGasHsml but within one percent of it, without a bracket
C1_Witness ==
    \E p \in PIDs :
        /\ Returned(Owner(p)) /\ Participating(p)
        /\ NumNgb[p] > DesNumNgb + MaxNumNgbDeviation
        /\ Hsml[p] > MinGasHsml /\ 100 * Hsml[p] <= 101 * MinGasHsml
        /\ Left[p] = 0 /\ Right[p] = 0

C3_AsStated ==
    AllMonotoneReachable => \A t \in Tasks : errcode[t] = 0

\* every task has left the loop with ntot = 0 and all its participating particles done
ConvergedExit == \A t \in Tasks : Returned(t) /\ ntot[t] = 0 /\ AllDone(t)
\* every task has stopped in endrun(1155) after MAXITER + 1 passes
CeilingExit == \A t \in Tasks : pc[t] = "fatal" /\ errcode[t] = 1155
                                  /\ passes[t] = MAXITER + 1

\* position of task t in its run: passes made, then the place inside the pass
TaskRank(t) ==
    passes[t] * (NumPart + 3) +
    (CASE pc[t] = "begin" -> 0
       [] pc[t] = "post"  -> Len(queue[t]) - Cardinality(todo[t])
       [] pc[t] = "test"  -> NumPart + 1
       [] OTHER           -> NumPart + 2)
Rank == SumOver([t \in Tasks |-> TaskRank(t)], Tasks)
RankCeiling == NTask * ((MAXITER + 2) * (NumPart + 3))
Terminated == ConvergedExit \/ CeilingExit
\* the guards of the actions of DNext: some action can be taken
CanStep ==
    \/ \E t \in Tasks : pc[t] \in {"begin", "walk", "test"}
    \/ \E t \in Tasks : pc[t] = "post" /\ todo[t] # {}
    \/ \A t \in Tasks : pc[t] = "post" /\ todo[t] = {}

\* C3 amended: with monotone neighbour counts and a reachable window, density()
\* terminates, either with every participating particle done and ntot = 0 on every
\* task, or with the fatal error 1155 on every task after MAXITER + 1 passes.
\* Termination in finite-run form: every step raises Rank, Rank is bounded, a step
\* is possible in every state that is not one of the two exits, and a task that has
\* left the loop has left it in one of the two ways.
C3_Terminates ==
    /\ [](AllMonotoneReachable =>
            /\ Rank <= RankCeiling
            /\ ~Terminated => CanStep
            /\ \A t \in Tasks : Returned(t) => ntot[t] = 0 /\ AllDone(t)
            /\ \A t \in Tasks : pc[t] = "fatal" =>
                   errcode[t] = 1155 /\ passes[t] = MAXITER + 1)
    /\ [][AllMonotoneReachable => Rank' > Rank]_vars

\* C3 witness: monotone, reachable, and the loop has been left with everything done
\* after a particle needed several passes
C3_Witness ==
    /\ AllMonotoneReachable
    /\ ConvergedExit
    /\ \E p \in PIDs : Participating(p) /\ Hsml[p] # env[p].h0 /\ passes[Owner(p)] > 2

\* C4 as stated: never more than MAXITER tree-walk passes
C4_AsStated == \A t \in Tasks : passes[t] <= MAXITER

\* C4 amended: never more than MAXITER + 1 tree-walk passes; a pass is only started
\* while at most MAXITER have been made; the fatal error 1155 is raised exactly when
\* unconverged particles remain after pass MAXITER + 1
C4_Ceiling ==
    \A t \in Tasks :
        /\ passes[t] <= MAXITER + 1
        /\ pc[t] = "walk" => passes[t] <= MAXITER
        /\ errcode[t] = 1155 => pc[t] = "fatal" /\ passes[t] = MAXITER + 1 /\ ntot[t] > 0
        /\ pc[t] = "fatal" => errcode[t] = 1155

\* C4 witness: a task stopped by endrun(1155) after pass MAXITER + 1
C4_Witness ==
    \E t \in Tasks : errcode[t] = 1155 /\ passes[t] = MAXITER + 1 /\ iter[t] = MAXITER + 1

\* C5: all tasks make the same number of passes: pass counts never differ by more than
\* the pass in progress, a task that has returned left no task inside the loop and no
\* unconverged particle anywhere, and a task in a later pass saw ntot > 0
C5_SamePasses ==
    \A t \in Tasks : \A u \in Tasks :
        /\ passes[t] - passes[u] \in {-1, 0, 1}
        /\ pc[t] \in {"test", "done", "fatal"} /\ pc[u] \in {"test", "done", "fatal"}
               => passes[t] = passes[u] /\ ntot[t] = ntot[u]
        /\ Returned(t) => /\ pc[u] \in {"test", "done"}
                          /\ ntot[u] = 0 /\ npleft[u] = 0
        /\ pc[t] \in {"walk", "post"} /\ passes[t] > 1 => ~Returned(u) /\ ntot[t] > 0

\* C5 witness: a task with nothing left of its own is in a further pass, with an empty
\* queue, because another task still had an unconverged particle
C5_Witness ==
    \E t \in Tasks : \E u \in Tasks :
        /\ pc[t] = "post" /\ passes[t] >= 2 /\ queue[t] = <<>> /\ npleft[t] = 0
        /\ ntot[t] > 0 /\ npleft[u] > 0

(* ---------------- local_slopelimiter: properties ----------------------- *)

\* |g|, M and A of the limiter's description
GradNorm(g) == RSqrt(DAbs(g))
EnvM == Min(Abs(larg.valmax), Abs(larg.valmin))
EnvA == Max(Abs(larg.valmax), Abs(larg.valmin))
\* g after "scale g by c = (1 / (alim * h * |g|)) * X when c < 1, leave g unchanged
\* when c >= 1 or |g| = 0"
ScaledBy(g, X) ==
    IF GradNorm(g) = 0 THEN g
    ELSE LET t == RMul(RMul(larg.alim, larg.h), GradNorm(g))
             c == IF t = 0 THEN FPOne ELSE RMul(RInv(t), X)
         IN  IF c < FPOne THEN [k \in 1..3 |-> RMul(g[k], c)] ELSE g

\* C7 as stated: every call scales by the factor built from X = M for shoot_tol <= 0
\* and X = M + shoot_tol * A for shoot_tol > 0
C7_AsStated ==
    \A n \in 1..(Len(lhist) - 1) :
        lhist[n + 1] = ScaledBy(lhist[n], IF larg.shoot_tol > 0
                                          THEN EnvM + RMul(larg.shoot_tol, EnvA)
                                          ELSE EnvM)

\* C7 amended: every call scales by the factor built from X = M for shoot_tol <= 0
\* and X = min(M + shoot_tol * A, A) for shoot_tol > 0
C7_Formula ==
    \A n \in 1..(Len(lhist) - 1) :
        lhist[n + 1] = ScaledBy(lhist[n], IF larg.shoot_tol > 0
                                          THEN Min(EnvM + RMul(larg.shoot_tol, EnvA), EnvA)
                                          ELSE EnvM)

\* C7 witness: a call with shoot_tol > 0 and M + shoot_tol * A > A has scaled the gradient
C7_Witness ==
    /\ Len(lhist) >= 2
    /\ larg.shoot_tol > 0
    /\ EnvM + RMul(larg.shoot_tol, EnvA) > EnvA
    /\ lhist[2] # lhist[1]

LimX == LimiterBound(EnvM, EnvA, larg.shoot_tol)
LimProduct(g) == RMul(RMul(larg.alim, larg.h), GradNorm(g))
\* the size of the rounding errors one call accumulates, in units of 1/FPOne
LimRoundTol == 20

GradDone == gin.visitor = "gradient" /\ \A t \in Tasks : gpc[t] = "done"
TrackedFields == {"Density", "Pressure"}
FieldOf(f, p) == IF f = "Density" THEN gin.Density[p] ELSE gin.Pressure[p]
GradOf(f, p) == IF f = "Density" THEN Gradients[p].Density ELSE Gradients[p].Pressure
Dist(i, j) == Abs(Pos(i)[1] - Pos(j)[1])
\* the gas neighbours inside i's kernel, and the partners of i's pairs
KernelNgb(i) == {j \in PIDs \ {i} : Dist(i, j) < gin.Hsml[i]}
Partners(i) == {j \in PIDs \ {i} : Dist(i, j) < Max(gin.Hsml[i], gin.Hsml[j])}
\* the least and the largest phi_k - phi_i over i itself and the particles of S
DiffMin(f, i, S) ==
    LET d == {FieldOf(f, k) - FieldOf(f, i) : k \in S \cup {i}}
    IN  CHOOSE x \in d : \A y \in d : x <= y
DiffMax(f, i, S) ==
    LET d == {FieldOf(f, k) - FieldOf(f, i) : k \in S \cup {i}}
    IN  CHOOSE x \in d : \A y \in d : x >= y
\* twice the half-way step grad(phi)_i . (x_j - x_i)/2
Step2(f, i, j) ==
    RMul(GradOf(f, i)[1], Pos(j)[1] - Pos(i)[1])
    + RMul(GradOf(f, i)[2], Pos(j)[2] - Pos(i)[2])
    + RMul(GradOf(f, i)[3], Pos(j)[3] - Pos(i)[3])
\* the size of the rounding errors of the final operations, in units of 1/FPOne
GradRoundTol == 20

\* C6 as stated: after hydro_gradient_calc the half-way reconstruction of every tracked
\* field of an active gas particle i towards every neighbour j inside its kernel lies
\* within the least and the largest value of the field over i and its kernel neighbours
C6_AsStated ==
    GradDone /\ ValidParticles =>
        \A i \in PIDs : \A f \in TrackedFields : \A j \in KernelNgb(i) :
            IsActive(i) =>
                /\ Step2(f, i, j) >= 2 * DiffMin(f, i, KernelNgb(i)) - GradRoundTol
                /\ Step2(f, i, j) <= 2 * DiffMax(f, i, KernelNgb(i)) + GradRoundTol

\* M and A of the limiter for the differences to all partners of i
PartnerM(f, i) == Min(Abs(DiffMin(f, i, Partners(i))), Abs(DiffMax(f, i, Partners(i))))
PartnerA(f, i) == Max(Abs(DiffMin(f, i, Partners(i))), Abs(DiffMax(f, i, Partners(i))))

\* C6 amended: in a build with SLOPE_LIMITER_TOLERANCE 0 (or undefined) the half-way
\* reconstruction towards every kernel neighbour stays, up to rounding, within the
\* least and the largest value of the field over i and all partners of its pairs
\* (r < max(h_i, h_j)).  With SLOPE_LIMITER_TOLERANCE 1 the half-way step is only
\* bounded by 2 M, with SLOPE_LIMITER_TOLERANCE 2 by 4 M for the density and by
\* 4 min(M + A/8, A) for the pressure, M and A being the smaller and the larger
\* absolute value of the extreme differences to the partners.
C6_Envelope ==
    GradDone =>
        \A i \in PIDs : \A f \in TrackedFields : \A j \in KernelNgb(i) :
            IsActive(i) =>
                /\ gin.SLOPE_LIMITER_TOLERANCE = 0 =>
                      /\ Step2(f, i, j) >= 2 * DiffMin(f, i, Partners(i)) - GradRoundTol
                      /\ Step2(f, i, j) <= 2 * DiffMax(f, i, Partners(i)) + GradRoundTol
                /\ gin.SLOPE_LIMITER_TOLERANCE = 1 =>
                      Abs(Step2(f, i, j)) <= 4 * PartnerM(f, i) + GradRoundTol
                /\ gin.SLOPE_LIMITER_TOLERANCE = 2 =>
                      Abs(Step2(f, i, j)) <=
                         8 * (IF f = "Density" THEN PartnerM(f, i)
                              ELSE Min(PartnerM(f, i) + PartnerA(f, i) \div 8,
                                       PartnerA(f, i)))
                         + GradRoundTol

\* C6 witness: a pass of the SLOPE_LIMITER_TOLERANCE 0 build has ended with an active
\* particle whose density gradient the limiter has cut back: it is not zero, and its
\* half-way step towards a kernel neighbour is as large as the envelope allows
C6_Witness ==
    /\ GradDone
    /\ gin.SLOPE_LIMITER_TOLERANCE = 0
    /\ \E i \in PIDs : \E j \in KernelNgb(i) :
          /\ IsActive(i)
          /\ Step2("Density", i, j) # 0
          /\ PartnerM("Density", i) > 0
          /\ RMul(RMul(ALimiter(gin.ConditionNumber[i], 0),
                       HLim(gin.Hsml[i], GasGradDataPasser[i].MaxDistance, 0)),
                  GradNorm(Gradients[i].Density))
                >= PartnerM("Density", i) - GradRoundTol

\* the state of particle p that a visitor pass can change
ParticleState(p) == <<Gradients[p], GasGradDataPasser[p], NgbSum[p]>>
\* worker th of task t is between the load and the store of particle p's accumulators
Holds(t, th, p) ==
    \/ thr[t][th].st = "mirror" /\ Head(thr[t][th].todo) = p
    \/ thr[t][th].st = "out" /\ thr[t][th].target = p

\* C9 as stated: while a task evaluates the queries it imported (mode 1), no step
\* changes the state of a particle the task owns; only result slots change
C9_AsStated ==
    [][\A t \in Tasks : \A p \in Local(t) :
          gpc[t] = "secondary" => ParticleState(p)' = ParticleState(p)]_vars

\* C9 amended: a mode 1 evaluation of the density visitor changes no particle of the
\* evaluating task.  A mode 1 evaluation of the gradient visitor stores its own sums
\* in the query's result slot, and it also stores the mirrored pair terms (gradient
\* sums, envelopes, MaxDistance) on every local gas particle j of an active time bin
\* that it forms a pair with; it changes no other particle and no other result slot.
C9_SecondaryWrites ==
    [][\A t \in Tasks :
          gpc[t] = "secondary" =>
             /\ \A p \in Local(t) :
                   ParticleState(p)' # ParticleState(p) =>
                      /\ gin.visitor = "gradient"
                      /\ IsActive(p)
                      /\ NgbSum[p]' = NgbSum[p]
                      /\ \E th \in Threads :
                            /\ thr[t][th].mode = 1
                            /\ Holds(t, th, p)
                            /\ thr[t][th]'.st = "walk"
                            /\ Dist(GasGradDataGet[t][thr[t][th].target].Index, p)
                                  < Max(GasGradDataGet[t][thr[t][th].target].in.Hsml,
                                        gin.Hsml[p])
             /\ \A k \in 1..Len(GasGradDataGet[t]) :
                   GasGradDataResult[t][k]' # GasGradDataResult[t][k] =>
                      \E th \in Threads :
                         /\ thr[t][th].mode = 1
                         /\ thr[t][th].target = k
                         /\ thr[t][th].st = "walk"
                         /\ thr[t][th]'.st = "idle"]_vars

\* C9 witness: a mode 1 evaluation of the gradient visitor has stored on a particle
\* of the evaluating task and has filled its result slot
C9_Witness ==
    /\ gin.visitor = "gradient"
    /\ \E w \in wlog : \E r \in wlog :
          /\ w.mode = 1 /\ w.obj = "particle" /\ w.particle \in Local(w.task)
          /\ Gradients[w.particle] # [Density |-> Zero3, Pressure |-> Zero3]
          /\ r.mode = 1 /\ r.obj = "result" /\ r.task = w.task /\ r.target = w.target

\* C10 as stated: in the primary pass a worker evaluating target i stores on no
\* particle but i, and no two workers of a task are at the same time between the load
\* and the store of the same particle's accumulators
C10_AsStated ==
    /\ \A w \in wlog : w.mode = 0 => w.particle = w.target
    /\ \A t \in Tasks : \A p \in Local(t) : \A th \in Threads : \A tk \in Threads :
          (gpc[t] = "primary" /\ th # tk) => ~(Holds(t, th, p) /\ Holds(t, tk, p))


(* ---------------- the export buffer: properties ------------------------ *)

\* the particles the workers of task t have taken in the current sub-pass
TakenInSubpass(t) ==
    {save_NextParticle[t][n] :
        n \in 1..(Len(save_NextParticle[t]) - Len(NextParticle[t]))}
\* the active list from the first particle of the sub-pass that was not completely
\* processed (ProcessedFlag # 1) on; what is left of the list if there is none
ResumePoint(t) ==
    LET sv == save_NextParticle[t]
        unp == {n \in 1..(Len(sv) - Len(NextParticle[t])) : ProcessedFlag[t][sv[n]] # 1}
    IN  IF unp = {} THEN NextParticle[t]
        ELSE SubSeq(sv, CHOOSE n \in unp : \A m \in unp : n <= m, Len(sv))

\* C11 as stated: when the threads of a sub-pass are joined with BufferFullFlag set,
\* the run ends in endrun(113308) if no particle of the sub-pass was completely
\* processed; otherwise the task goes on, NextParticle is the first particle that
\* was not completely processed, and it lies further down the list than the
\* particle the sub-pass began with
C11_AsStated ==
    [][\A t \in Tasks :
          (gpc[t] = "primary" /\ gpc'[t] # "primary" /\ BufferFullFlag[t] # 0) =>
              IF \A i \in TakenInSubpass(t) : ProcessedFlag[t][i] # 1
              THEN gpc'[t] = "fatal"
              ELSE /\ gpc'[t] = "flush"
                   /\ NextParticle'[t] = ResumePoint(t)
                   /\ Len(NextParticle'[t]) < Len(save_NextParticle[t])]_vars

\* C12 as stated: no pairwise contribution is accumulated twice because of a restart:
\* the neighbour loop of a particle adds its pair terms once, and each of its
\* exported queries is handed to the exchange once
C12_AsStated ==
    \A t \in Tasks : \A i \in PIDs :
        /\ NumEvaluated[t][i] <= 1
        /\ NumSent[t][i] <= Len(ExportNeed[t][i])


(* ---------------- density_check_neighbours: properties ----------------- *)

\* this step is the iteration of the post-pass loop of task t on particle p
Checked(t, p) ==
    /\ pc[t] = "post"
    /\ \E i \in todo[t] \ todo'[t] : queue[t][i] = p

\* C13: the fatal error 8188 is never raised for particles that enter with Hsml > 0:
\* Hsml stays positive, and once density_check_neighbours has sent a particle to
\* another pass at least one of Left, Right is strictly positive
C13_Bracketed ==
    /\ \A t \in Tasks : errcode[t] # 8188
    /\ \A p \in PIDs : Participating(p) =>
          /\ Hsml[p] > 0
          /\ Processed(p) /\ DensityIterationDone[p] = 0 => Left[p] > 0 \/ Right[p] > 0

\* C13 witness: both kinds of first update have happened: one particle has only
\* Left set (to the Hsml it came with), another has only Right set
C13_Witness ==
    \E p \in PIDs : \E q \in PIDs :
        /\ Participating(p) /\ Processed(p) /\ DensityIterationDone[p] = 0
        /\ Left[p] = env[p].h0 /\ Right[p] = 0
        /\ Participating(q) /\ Processed(q) /\ DensityIterationDone[q] = 0
        /\ Left[q] = 0 /\ Right[q] = env[q].h0

\* the condition of the first rule: NumNgb within the window, or above it at an Hsml
\* of at most 1.01 MinGasHsml
FirstRule(p) ==
    \/ InWindow(NumNgb[p])
    \/ NumNgb[p] > DesNumNgb + MaxNumNgbDeviation /\ 100 * Hsml[p] <= 101 * MinGasHsml
\* the bracket of p is collapsed: Left > 0, Right > 0, Right - Left < 1e-3 Left
Collapsed(p) == Left[p] > 0 /\ Right[p] > 0 /\ 1000 * (Right[p] - Left[p]) < Left[p]
\* the step leaves Hsml, Left and Right of p as they are
SameBracket(p) == Hsml'[p] = Hsml[p] /\ Left'[p] = Left[p] /\ Right'[p] = Right[p]

\* C14: a call of density_check_neighbours in which the first rule's condition holds
\* marks the particle DONE and changes none of Hsml, Left, Right; a call in which it
\* does not hold marks the particle DONE only through the collapsed-bracket rule, so
\* an under-populated particle is never marked DONE by the first rule
C14_FirstRule ==
    [][\A t \in Tasks : \A p \in Local(t) : Checked(t, p) =>
          /\ FirstRule(p) => DensityIterationDone'[p] = 1 /\ SameBracket(p)
          /\ ~FirstRule(p) /\ ~Collapsed(p) => DensityIterationDone'[p] = 0
          /\ NumNgb[p] < DesNumNgb - MaxNumNgbDeviation /\ DensityIterationDone'[p] = 1
                => Collapsed(p)]_vars

\* C14 witness: a particle that was shrunk in earlier passes (only Right set) has been
\* marked DONE while over-populated at an Hsml of at most 1.01 MinGasHsml, and another
\* one has been marked DONE inside the window after its Hsml was changed
C14_Witness ==
    \E p \in PIDs : \E q \in PIDs :
        /\ Participating(p) /\ DensityIterationDone[p] = 1 /\ pc[Owner(p)] # "begin"
        /\ NumNgb[p] > DesNumNgb + MaxNumNgbDeviation /\ 100 * Hsml[p] <= 101 * MinGasHsml
        /\ Left[p] = 0 /\ Right[p] > Hsml[p]
        /\ Participating(q) /\ DensityIterationDone[q] = 1 /\ pc[Owner(q)] # "begin"
        /\ InWindow(NumNgb[q]) /\ Hsml[q] # env[q].h0

\* C15: a call of density_check_neighbours on a particle outside the window that
\* enters with Left > 0, Right > 0 and Right - Left < 1e-3 Left marks it DONE and
\* leaves Hsml, Left and Right unchanged
C15_CollapsedDone ==
    [][\A t \in Tasks : \A p \in Local(t) :
          Checked(t, p) /\ ~InWindow(NumNgb[p]) /\ Collapsed(p) =>
              DensityIterationDone'[p] = 1 /\ SameBracket(p)]_vars

\* C15 witness: a particle that the first rule would send to another pass has been
\* marked DONE with a collapsed bracket, its Hsml strictly inside the bracket
C15_Witness ==
    \E p \in PIDs :
        /\ Participating(p) /\ DensityIterationDone[p] = 1 /\ pc[Owner(p)] # "begin"
        /\ ~FirstRule(p) /\ Collapsed(p)
        /\ Left[p] < Hsml[p] /\ Hsml[p] < Right[p]

OnlyLeft(p) == Left'[p] > 0 /\ Right'[p] = 0
OnlyRight(p) == Right'[p] > 0 /\ Left'[p] = 0
\* the Newton factor of the claim, from the count and the factor the step has stored
ClaimFac(p) == NewtonFac(NumNgb[p], DhsmlDensityFactor'[p])
\* fac lies in [1/1.26, 1.26]
FacInWindow(fac) == 126 * fac >= 100 * FS /\ 100 * fac <= 126 * FS
\* the particle is gas with |NumNgb - desnumngb| < 0.5 desnumngb
NearDesired(p) == env[p].Type = 0 /\ 2 * Abs(NumNgb[p] - DesNumNgb) < DesNumNgb

\* C17: in a call of density_check_neighbours that leaves one side of the bracket set,
\* the new Hsml is the old one times a factor, lifted to MinGasHsml if below it. The
\* factor is the Newton factor for a gas particle within 0.5 desnumngb of the desired
\* count whose Newton factor lies in [1/1.26, 1.26], and 1.26 (only Left) or 1/1.26
\* (only Right) in every other case; so an Hsml above MinGasHsml is within
\* [old / 1.26, 1.26 old] (up to the rounding of the length grid), and one at
\* MinGasHsml has old / 1.26 not above MinGasHsml
C17_StepFactor ==
    [][\A t \in Tasks : \A p \in Local(t) :
          Checked(t, p) /\ ~FirstRule(p) /\ ~Collapsed(p) /\ (OnlyLeft(p) \/ OnlyRight(p)) =>
              LET h == Hsml[p]
                  extreme == IF OnlyLeft(p) THEN (h * 126) \div 100 ELSE (h * 100) \div 126
                  x == IF NearDesired(p) /\ FacInWindow(ClaimFac(p))
                       THEN MulFac(h, ClaimFac(p)) ELSE extreme
              IN  /\ Hsml'[p] = Max(x, MinGasHsml)
                  /\ Hsml'[p] > MinGasHsml =>
                         100 * Hsml'[p] <= 126 * h /\ 126 * (Hsml'[p] + 1) > 100 * h
                  /\ Hsml'[p] = MinGasHsml => (h * 100) \div 126 <= MinGasHsml]_vars

\* C17 witness: after a step with the Newton factor in each direction: one particle
\* has only Left set and an Hsml above Left by less than the factor 1.26, another has
\* only Right set and an Hsml below Right by less than the factor 1.26
C17_Witness ==
    \E p \in PIDs : \E q \in PIDs :
        /\ Participating(p) /\ Processed(p) /\ DensityIterationDone[p] = 0
        /\ Right[p] = 0 /\ Left[p] > MinGasHsml
        /\ Hsml[p] > Left[p] /\ Hsml[p] < (Left[p] * 126) \div 100
        /\ Participating(q) /\ Processed(q) /\ DensityIterationDone[q] = 0
        /\ Left[q] = 0 /\ Right[q] > 0
        /\ Hsml[q] < Right[q] /\ Hsml[q] > (Right[q] * 100) \div 126 /\ Hsml[q] > MinGasHsml

(* ---------------- density_post_process: properties --------------------- *)

\* x = d * Hsml / (NUMDIMS * Density) as the fraction XNum(p) / XDen(p), for the raw
\* sum and the Hsml the step finds
XNum(p) == SDiv(DhsmlDensityFactor[p], DS) * Hsml[p]
XDen(p) == NUMDIMS * HsmlUnit * Density[p]

\* C18: a step of the post-pass loop on a gas particle with Density > 0 stores
\* 1 / (1 + x) (rounded down to the grid of the factor) when x > -0.9 and 1 when
\* x <= -0.9, a value that is strictly positive and at most 10; with Density <= 0 it
\* leaves DhsmlDensityFactor, DivVel and CurlVel as they are
C18_PostProcess ==
    [][\A t \in Tasks : \A p \in Local(t) : Checked(t, p) /\ env[p].Type = 0 =>
          LET f == DhsmlDensityFactor'[p]
          IN  IF Density[p] > 0
              THEN /\ IF 10 * XNum(p) > -9 * XDen(p)
                      THEN /\ f * (XDen(p) + XNum(p)) <= DS * XDen(p)
                           /\ (f + 1) * (XDen(p) + XNum(p)) > DS * XDen(p)
                      ELSE f = DS
                   /\ f > 0 /\ f <= 10 * DS
              ELSE /\ f = DhsmlDensityFactor[p]
                   /\ DivVel'[p] = DivVel[p]
                   /\ CurlVel'[p] = CurlVel[p]]_vars

\* C18 witness: one particle has been marked done with x > -0.9 and a stored factor
\* above 1, another has been through the post-pass loop with Density = 0 and has the
\* CurlVel it came with
C18_Witness ==
    \E p \in PIDs : \E q \in PIDs :
        /\ Participating(p) /\ DensityIterationDone[p] = 1 /\ pc[Owner(p)] # "begin"
        /\ Density[p] > 0 /\ DhsmlDensityFactor[p] > DS
        /\ Participating(q) /\ Processed(q) /\ passes[Owner(q)] > 0
        /\ Density[q] = 0 /\ CurlVel[q] = CurlVelBefore /\ DivVel[q] = 0

(* ---------------- DensityIterationDone: properties --------------------- *)

\* p is in the queue task t holds
Queued(t, p) == \E i \in 1..Len(queue[t]) : queue[t][i] = p

\* C19: DensityIterationDone is monotone within density(): the start clears it for
\* every local particle; afterwards a flag of 1 stays 1, the Hsml, NumNgb, Density and
\* DhsmlDensityFactor of a flagged particle do not change, a flagged particle is in no
\* queue that is built and is not waiting for the post-pass loop; no task ends in the
\* fatal error 999993
C19_DoneMonotone ==
    /\ [](\A t \in Tasks :
             /\ errcode[t] # 999993
             /\ pc[t] = "post" =>
                    \A i \in todo[t] : DensityIterationDone[queue[t][i]] = 0)
    /\ [][\A t \in Tasks : \A p \in Local(t) :
             /\ pc[t] = "begin" /\ pc'[t] # "begin" => DensityIterationDone'[p] = 0
             /\ pc[t] = "walk" /\ pc'[t] = "post" /\ DensityIterationDone[p] = 1
                    => ~Queued(t, p)'
             /\ pc[t] # "begin" /\ DensityIterationDone[p] = 1 =>
                    /\ DensityIterationDone'[p] = 1
                    /\ Hsml'[p] = Hsml[p] /\ NumNgb'[p] = NumNgb[p]
                    /\ Density'[p] = Density[p]
                    /\ DhsmlDensityFactor'[p] = DhsmlDensityFactor[p]]_vars

\* C19 witness: in a pass after the first, a task holds a queue with one of its
\* particles in it and not with another one, which was marked done earlier with a
\* post-processed factor
C19_Witness ==
    \E t \in Tasks : \E p \in Local(t) : \E q \in Local(t) :
        /\ pc[t] = "post" /\ passes[t] >= 2
        /\ Participating(p) /\ DensityIterationDone[p] = 1 /\ ~Queued(t, p)
        /\ DhsmlDensityFactor[p] # env[p].draw * DS
        /\ Participating(q) /\ Queued(t, q)

\* C20: at a normal return the NumNgb, Density, DivVel and CurlVel of every
\* participating particle are what a walk at the Hsml it now has finds, with DivVel and
\* CurlVel divided by Density once; and a step of the post-pass loop that marks a
\* particle done leaves its Hsml unchanged, one that changes its Hsml leaves it not done
C20_ConsistentAtReturn ==
    /\ [](\A p \in PIDs : Returned(Owner(p)) /\ Participating(p) =>
             /\ NumNgb[p] = NgbOf(env[p].kind, Hsml[p])
             /\ Density[p] = env[p].rho
             /\ IF Density[p] > 0
                THEN /\ DivVel[p] * Density[p] = DivFound(env[p])
                     /\ CurlVel[p] = post_CurlVel(Density[p], RotFound(env[p]), CurlVelBefore)
                ELSE /\ DivVel[p] = DivFound(env[p])
                     /\ CurlVel[p] = CurlVelBefore)
    /\ [][\A t \in Tasks : \A p \in Local(t) : Checked(t, p) =>
             /\ DensityIterationDone'[p] = 1 => Hsml'[p] = Hsml[p]
             /\ Hsml'[p] # Hsml[p] => DensityIterationDone'[p] = 0]_vars

\* C20 witness: density() has returned for a particle whose Hsml and neighbour count
\* both differ from those of its first pass, after at least three passes
C20_Witness ==
    \E p \in PIDs :
        /\ Returned(Owner(p)) /\ Participating(p) /\ passes[Owner(p)] >= 3
        /\ Hsml[p] # env[p].h0
        /\ NumNgb[p] # NgbOf(env[p].kind, env[p].h0)
        /\ Density[p] > 0 /\ DivVel[p] # DivFound(env[p])

(* ---------------- the bracket and the search: properties --------------- *)

\* C21: whenever density_check_neighbours has run on a particle and both Left > 0 and
\* Right > 0 hold, Left <= Hsml <= Right, whatever the dependence of NumNgb on Hsml
C21_BracketInvariant ==
    \A p \in PIDs : Participating(p) /\ Processed(p) /\ Left[p] > 0 /\ Right[p] > 0 =>
        Left[p] <= Hsml[p] /\ Hsml[p] <= Right[p]

\* C21 witness: a particle whose neighbour count is not monotone in Hsml is on its way
\* to another pass with both ends set and Hsml strictly between them, after its Left
\* was raised above the Hsml it came with
C21_Witness ==
    \E p \in PIDs :
        /\ Participating(p) /\ Processed(p) /\ DensityIterationDone[p] = 0
        /\ ~Monotone(env[p].kind)
        /\ Left[p] > env[p].h0 /\ Left[p] < Hsml[p] /\ Hsml[p] < Right[p]

\* the step is a call of density_check_neighbours on a particle that is
\* under-populated and has been in every pass so far (Right is still 0)
UnderStep(t, p) ==
    Checked(t, p) /\ Participating(p) /\ Right[p] = 0
    /\ NumNgb[p] < DesNumNgb - MaxNumNgbDeviation
\* a particle whose count is below the window at every Hsml
AlwaysUnder(p) == Participating(p) /\ env[p].kind = "iso"

PairTerm(f, i, j) ==
    VScale(VScale(PairDp(particle2in_GasGrad(i), j), -kernel_wk(Dist(i, j), gin.Hsml[i])),
           FieldOf(f, j) - FieldOf(f, i))
RECURSIVE SumTerms(_, _, _)
\* the sum of the terms of the pairs of i with the particles of S
SumTerms(f, i, S) ==
    IF S = {} THEN Zero3
    ELSE LET j == CHOOSE x \in S : TRUE
         IN  VAdd(PairTerm(f, i, j), SumTerms(f, i, S \ {j}))
\* the envelope of field f and the MaxDistance particle i holds
MinimaOf(f, i) == IF f = "Density" THEN GasGradDataPasser[i].Minima.Density
                  ELSE GasGradDataPasser[i].Minima.Pressure
MaximaOf(f, i) == IF f = "Density" THEN GasGradDataPasser[i].Maxima.Density
                  ELSE GasGradDataPasser[i].Maxima.Pressure

\* C23 as stated: when the loop over the pairs is over, every active gas particle i
\* holds the contribution of every gas neighbour j with 0 < r_ij < h_i exactly once:
\* its gradient sums are the sums of the pair terms, and its envelopes and MaxDistance
\* cover every such pair
C23_AsStated ==
    gin.visitor = "gradient" /\ ValidParticles =>
        \A i \in PIDs : IsActive(i) /\ gpc[Owner(i)] = "final" =>
            \A f \in TrackedFields :
                /\ GradOf(f, i) = SumTerms(f, i, KernelNgb(i))
                /\ \A j \in KernelNgb(i) :
                      /\ GasGradDataPasser[i].MaxDistance >= Dist(i, j)
                      /\ MinimaOf(f, i) <= FieldOf(f, j) - FieldOf(f, i)
                      /\ MaximaOf(f, i) >= FieldOf(f, j) - FieldOf(f, i)

(* ---------------- what hydro_gradient_calc changes: properties --------- *)

\* no evaluation has stored anything on particle p so far
Untouched(p) == ~\E w \in wlog : w.obj = "particle" /\ w.particle = p
\* the loop over the pairs of p's task is running and its results are not added yet
InLoop(p) == gpc[Owner(p)] \in {"primary", "exchange", "secondary", "reduce"}

\* C24: hydro_gradient_calc changes gradient state only of active gas particles.  A
\* particle whose time bin is not active keeps the Gradients it had before the call
\* and no evaluation stores on it; an active particle receives no contribution before
\* its task has zeroed it, and until its first contribution its gradient sums and its
\* min/max/MaxDistance scratch are zero
C24_Frame ==
    gin.visitor = "gradient" =>
        \A p \in PIDs :
            /\ ~gin.TimeBinActive[gin.TimeBin[p]] =>
                    Gradients[p] = StaleGradients /\ Untouched(p)
            /\ gin.TimeBinActive[gin.TimeBin[p]] /\ gpc[Owner(p)] = "begin" =>
                    Untouched(p)
            /\ gin.TimeBinActive[gin.TimeBin[p]] /\ InLoop(p) /\ Untouched(p) =>
                    /\ Gradients[p] = [Density |-> Zero3, Pressure |-> Zero3]
                    /\ GasGradDataPasser[p] = PasserZero
\* the call has returned; an inactive particle lies inside the kernel of an active one
\* that formed the pair and has gradients of its own
C24_Witness ==
    /\ GradDone
    /\ \E p \in PIDs : \E i \in PIDs :
          /\ ~gin.TimeBinActive[gin.TimeBin[p]]
          /\ gin.TimeBinActive[gin.TimeBin[i]]
          /\ p \in KernelNgb(i)
          /\ ~PairSkipped(particle2in_GasGrad(i), p)
          /\ ~Untouched(i)
          /\ Gradients[i] # StaleGradients

(* ---------------- the do-loop of the export: properties ---------------- *)

\* C25: no task leaves the do-loop before every task has run out of active particles,
\* and the tasks go through the same number of passes of the loop: a task that is
\* past the loop finds every task past it, with an empty list and as many passes; the
\* tasks that wait in the collectives of a pass are in the same pass; no task is more
\* than one pass ahead of another
C25_LockStep ==
    \A t \in Tasks : \A u \in Tasks :
        /\ gpc[t] = "done" =>
                gpc[u] = "done" /\ NextParticle[u] = <<>> /\ NumSubpass[u] = NumSubpass[t]
        /\ gpc[t] = "flush" /\ gpc[u] = "flush" => NumSubpass[u] = NumSubpass[t]
        /\ NumSubpass[t] <= NumSubpass[u] + 1
\* the loop is over; task t had nothing left when it began the last pass, which task
\* u began with particles to do
C25_Witness ==
    \E t \in Tasks : \E u \in Tasks :
        /\ gpc[t] = "done" /\ gpc[u] = "done"
        /\ NumSubpass[t] >= 2
        /\ save_NextParticle[t] = <<>>
        /\ save_NextParticle[u] # <<>>

(* ---------------- the compaction of the export table: properties -------- *)

\* the entries in the slots S of a table with its node lists: particle, task, node list
SlotEntries(tbl, nl, S) == {<<tbl[n].Index, tbl[n].Task, nl[n]>> : n \in S}

\* C27: the compaction after the buffer has filled leaves, in the first Nexport slots
\* of DataIndexTable and DataNodeList, exactly the entries of the particles flagged 2
\* with their node lists, each once; no entry of another particle stays; and the
\* IndexGet of every entry is its slot, which holds the node list made for it
C27_Compaction ==
    [][\A t \in Tasks :
          (gpc[t] = "primary" /\ gpc'[t] = "flush" /\ BufferFullFlag[t] # 0) =>
              LET pre == DataIndexTable[t]
                  post == DataIndexTable'[t]
                  postnl == DataNodeList'[t]
                  Kept == {n \in 1..Len(pre) : ProcessedFlag'[t][pre[n].Index] = 2}
              IN  /\ Len(post) = Cardinality(Kept)
                  /\ Len(postnl) = Len(post)
                  /\ SlotEntries(post, postnl, 1..Len(post))
                        = SlotEntries(pre, DataNodeList[t], Kept)
                  /\ \A n \in 1..Len(post) :
                        /\ ProcessedFlag'[t][post[n].Index] = 2
                        /\ post[n].IndexGet = n - 1
                        /\ postnl[post[n].IndexGet + 1].Index = post[n].Index
                        /\ postnl[post[n].IndexGet + 1].Task = post[n].Task]_vars
\* the buffer has filled in this pass of the loop and the table was compacted: it
\* holds the exports of a particle flagged 2, and a particle that had exported as
\* well is not flagged 2 and has no entry left
C27_Witness ==
    \E t \in Tasks :
        /\ gpc[t] = "flush" /\ BufferFullFlag[t] # 0
        /\ DataIndexTable[t] # <<>>
        /\ \E i \in PIDs :
              /\ ProcessedFlag[t][i] = 1
              /\ ExportNeed[t][i] # <<>>
              /\ NumEvaluated[t][i] >= 1
              /\ EntriesOf(DataIndexTable[t], i) = 0

(* ---------------- queries and results of one pass: properties ----------- *)

\* every task has been through the exchanges of a pass and none has begun the next
Exchanged == \A t \in Tasks : gpc[t] \in {"top", "done"} /\ NumSubpass[t] >= 1

\* C26: after the exchanges of a pass the table of every task is sorted by task and,
\* for every entry j, GasGradDataOut[j] is what the task of the entry computed from
\* the query of particle DataIndexTable[j].Index with the node list made for this
\* entry; it sits in exactly one result slot of that task, and every result slot
\* holds the evaluation of the query in the same slot and comes back as exactly one
\* GasGradDataOut[j]; the loop that adds the results runs over the entries once
C26_Matching ==
    Exchanged =>
        \A t \in Tasks :
            LET tbl == DataIndexTable[t]
            IN  /\ Len(GasGradDataOut[t]) = Len(tbl)
                /\ Len(GasGradDataResult[t]) = Len(GasGradDataGet[t])
                /\ \A j \in 1..Len(tbl) : \A k \in 1..Len(tbl) :
                      j < k => tbl[j].Task <= tbl[k].Task
                /\ \A j \in 1..Len(tbl) :
                      LET r == GasGradDataOut[t][j]
                          res == GasGradDataResult[tbl[j].Task]
                      IN  /\ r.By = tbl[j].Task
                          /\ r.Query.Particle = <<t, tbl[j].Index>>
                          /\ r.Query.NodeList = DataNodeList[t][tbl[j].IndexGet + 1]
                          /\ r.Query.NodeList.Index = tbl[j].Index
                          /\ r.Query.NodeList.Task = tbl[j].Task
                          /\ Cardinality({n \in 1..Len(res) : res[n] = r}) = 1
                /\ \A n \in 1..Len(GasGradDataGet[t]) :
                      /\ GasGradDataResult[t][n] = [By |-> t, Query |-> GasGradDataGet[t][n]]
                      /\ Cardinality({x \in Tasks \X (1..MaxBunchSize) :
                                         /\ x[2] <= Len(GasGradDataOut[x[1]])
                                         /\ GasGradDataOut[x[1]][x[2]] = GasGradDataResult[t][n]})
                            = 1
\* the exchanges of a pass are over; the sort has moved an entry of a task away from
\* the slot of its node list, and the task has got results for two particles
C26_Witness ==
    /\ Exchanged
    /\ \E t \in Tasks :
          /\ \E j \in 1..Len(DataIndexTable[t]) : DataIndexTable[t][j].IndexGet # j - 1
          /\ \E j \in 1..Len(DataIndexTable[t]) : \E k \in 1..Len(DataIndexTable[t]) :
                DataIndexTable[t][j].Index # DataIndexTable[t][k].Index
          /\ Len(GasGradDataOut[t]) >= 2

(* ---------------- the envelopes of the slope limiter: properties -------- *)

\* the shoot_tol the limiter of field f is called with
ShootTol(f) == IF f = "Density" THEN 0 ELSE Stol(gin.SLOPE_LIMITER_TOLERANCE)
\* the results of the task of i are merged
Merged(i) == gin.visitor = "gradient" /\ gpc[Owner(i)] \in {"final", "done"}

\* C28 as stated: once all contributions are merged, every active gas particle has,
\* for every tracked field, Minima <= 0 <= Maxima with Maxima the largest and Minima
\* the least of 0 and the differences phi_j - phi_i to the partners of its pairs,
\* whatever the order of the contributions; and where the field of i is an extremum
\* among them and shoot_tol is 0, the limited gradient is exactly zero
C28_AsStated ==
    \A i \in PIDs : \A f \in TrackedFields :
        Merged(i) /\ IsActive(i) /\ ValidParticles =>
            /\ MinimaOf(f, i) <= 0 /\ 0 <= MaximaOf(f, i)
            /\ MaximaOf(f, i) = DiffMax(f, i, Partners(i))
            /\ MinimaOf(f, i) = DiffMin(f, i, Partners(i))
            /\ ( /\ gpc[Owner(i)] = "done"
                 /\ ShootTol(f) = 0
                 /\ DiffMax(f, i, Partners(i)) = 0 \/ DiffMin(f, i, Partners(i)) = 0 )
                    => GradOf(f, i) = Zero3


\* ---- the early returns of the evaluation: properties ----

\* an active particle the primary evaluation returns on before its tree walk, although
\* a particle of another task lies within its reach
ReturnsEarlyInReach(p) ==
    /\ IsActive(p)
    /\ (gin.Hsml[p] <= 0 \/ gin.Mass[p] <= 0 \/ gin.Density[p] <= 0)
    /\ \E j \in PIDs : Owner(j) # Owner(p) /\ Dist(p, j) < Max(gin.Hsml[p], gin.Hsml[j])

\* C29: every query a task imports in the gradient loop passes the three tests of
\* GasGrad_evaluate (Hsml > 0, Mass # 0, Density > 0), so the secondary evaluation
\* takes no early return, and once the secondary loop is over every result slot
\* that goes back to the exporting task has been written.
C29_ResultsWritten ==
    gin.visitor = "gradient" =>
        \A t \in Tasks :
            /\ \A n \in 1..Len(GasGradDataGet[t]) :
                  LET q == GasGradDataGet[t][n].in
                  IN  q.Hsml > 0 /\ q.Mass # 0 /\ q.GQuant.Density > 0
            /\ gpc[t] \in {"reduce", "final", "done"} =>
                  \A n \in 1..Len(GasGradDataResult[t]) :
                      GasGradDataResult[t][n] # NoResult

\* the pass is over, a particle returned early although a particle of the other task
\* lies within its reach, and a task imported and answered a query
C29_Witness ==
    /\ GradDone
    /\ \E p \in PIDs : ReturnsEarlyInReach(p)
    /\ \E t \in Tasks :
          /\ Len(GasGradDataGet[t]) >= 1
          /\ Len(GasGradDataResult[t]) = Len(GasGradDataGet[t])


\* ---- the reads of queue in the post-pass loop: properties ----

\* C30: in the post-pass loop of density() every read of queue uses an index in
\* [0, Nactive), in every pass, the passes with iter >= MAXITER - 10 and their
\* diagnostic included.
C30_AsStated ==
    \A t \in Tasks : \A r \in qread[t] : 0 <= r /\ r < Len(queue[t])

=============================================================================
